---- MODULE Spec2Model ----
(***************************************************************************)
(* tsndt: XDP counting program (tsndt-ebpf/src/main.rs) and the userspace  *)
(* aggregator / attachment manager (tsndt/src/context/*.rs, app.rs).       *)
(*                                                                         *)
(* The kernel side is modelled per CPU, either one packet at a time        *)
(* (XdpPacket) or at the granularity of one map helper call (XdpReceive,   *)
(* XdpGet, XdpUpd: lookup, then store or insert); the userspace side is    *)
(* one thread whose tick is split where it touches a different kernel      *)
(* table.  network_interface.rs opens the interface tables under the names *)
(* INGRESS_PACKET_COUNTERS / INGRESS_BYTE_COUNTERS; they are taken to be   *)
(* the program's INTERFACE_RX_PACKET_COUNTERS / INTERFACE_RX_BYTE_COUNTERS.*)
(***************************************************************************)
EXTENDS Integers, Sequences, FiniteSets, TLC

\* ---------------------------------------------------------------- bounds
\* Sizes of the modelled world.
NumInterfaces == 2
NumMacs == 3
NumCpus == 2
MaxTick == 3
MaxPackets == 5
MaxPacketsLink == 2
MaxPacketsConc == 2
MaxToggles == 2
MaxPacketsCall == 1
MaxPacketsBoot == 2
MaxBursts == 2
MaxPacketsRace == 3
MaxTickRace == 2
MaxEvents == 2
MaxPacketsLoop == 1
MaxTickLoop == 2
MaxPacketsLife == 1
MaxCallsLife == 1
MaxTickLife == 2
MaxPacketsCpus == 3
MaxPacketsInit == 2
MaxTogglesLive == 1
MaxTickLive == 2
MaxPacketsLive == 1
MaxPacketsSelect == 3
MaxTickSelect == 2
\* Program constants scaled down so that their cases are reached:
\* window_size is 50.0, the idle timeout 300 s * (1000 / 200 ms) = 1500
\* ticks, the LRU tables hold 8192 addresses, u32 / u64 are 2^32 / 2^64.
window_size == 1
IDLE_MAC_ADDR_TIMEOUT_NUM_TICKS == 1
MAX_NUM_MAC_ADDRS == 2
U32 == 64
U64 == 1024
\* TICK_RATE_MS is 200 ms; time is counted in units of 100 ms.
TICK_RATE == 2

\* ------------------------------------------------------------- constants
ETH_HLEN == 14

Interfaces == 1..NumInterfaces
Macs == 1..NumMacs
Cpus == 0..(NumCpus - 1)
PacketLens == {ETH_HLEN - 1, ETH_HLEN}
\* receive-side scaling: the CPU that processes the packets of one flow
RssCpu(flow) == flow % NumCpus

IF_PKT == "INTERFACE_RX_PACKET_COUNTERS"
IF_BYTE == "INTERFACE_RX_BYTE_COUNTERS"
MAC_PKT == "SRC_MAC_RX_PACKET_COUNTERS"
MAC_BYTE == "SRC_MAC_RX_BYTE_COUNTERS"
Tables == {IF_PKT, IF_BYTE, MAC_PKT, MAC_BYTE}
LruTables == {MAC_PKT, MAC_BYTE}
PacketTables == {IF_PKT, MAC_PKT}

VARIABLES
    \* kernel
    maps,           \* table name -> (key -> per-CPU slots)
    lru,            \* LRU table name -> keys, least recently used first
    attached,       \* interfaces the XDP program is installed on
    xdp,            \* per CPU: the packet being processed by try_xdp_tsndt;
                    \* once idle again, the length of the last packet, whether
                    \* its header was read and the value xdp_tsndt returned
    npackets,       \* packets received so far (bounded by MaxPackets)
    ntoggles,       \* toggle key presses so far (bounded by MaxToggles)
    \* userspace driver
    proc,           \* status "running", "panicked" or "failed" (run returned
                    \* Err), and the function the process ended in
    upc,            \* position of the userspace thread inside a tick, or
                    \* inside init_ebpf_programs during startup
    to_remove,      \* EthernetModel::on_tick local: addresses to evict
    ret,            \* the Result the last toggle / attach / detach call gave
                    \* its caller, which operation it was and its argument
    app,            \* App: run_state, selected_context_id and, inside run,
                    \* the position in the loop body and the time since
                    \* last_tick; with them, what the current iteration has
                    \* done so far (events handled, passes begun)
    zero_init,      \* init_ebpf_programs inside a zero-initialisation loop:
                    \* the interface it is at and whether `get` has just
                    \* returned Err for it
    \* EthernetView / EthernetModel::displaying
    src_macs_state, \* ListState::selected(): an index into src_macs
                    \* (from 0) or None
    displaying,     \* addresses whose series are drawn
    \* NetworkInterfaceModel
    ni_tick_count, ni_window,
    ni_cumul_packet_counts, ni_tick_packet_count_data,
    ni_cumul_byte_counts, ni_tick_byte_count_data,
    collecting, xdp_link_ids,
    \* EthernetModel
    tick_count, window, src_macs, last_active_tick,
    cumul_packet_counts, tick_packet_count_data,
    cumul_byte_counts, tick_byte_count_data,
    \* history (not program state)
    counted,        \* packet-counter table -> key -> the packets its entry has
                    \* counted since it was created: how many, and their bytes
    rx_since,       \* address -> full frames received from it since the start
                    \* or its last idle eviction: how many, and their bytes
    idle_from,      \* address -> tick at which it was last seen active, while
                    \* no frame from it has arrived since
    evicted_at      \* address -> tick of its last idle eviction

kvars == <<maps, lru, attached, xdp, npackets, ntoggles>>
nivars == <<ni_tick_count, ni_window, ni_cumul_packet_counts,
            ni_tick_packet_count_data, ni_cumul_byte_counts,
            ni_tick_byte_count_data>>
linkvars == <<collecting, xdp_link_ids>>
ethvars == <<tick_count, window, src_macs, last_active_tick,
             cumul_packet_counts, tick_packet_count_data,
             cumul_byte_counts, tick_byte_count_data>>
hvars == <<counted, rx_since, idle_from, evicted_at>>
viewvars == <<src_macs_state, displaying>>
\* what neither a pass nor a call of toggle / attach / detach touches
outside_models == <<app, zero_init, viewvars>>
vars == <<kvars, proc, upc, to_remove, ret, app, zero_init, viewvars, nivars, linkvars,
          ethvars, hvars>>

\* ------------------------------------------------------------- helpers
Put(f, k, v) == [x \in (DOMAIN f) \cup {k} |-> IF x = k THEN v ELSE f[x]]
Drop(f, k) == [x \in (DOMAIN f) \ {k} |-> f[x]]
SeqWithout(s, k) == SelectSeq(s, LAMBDA x : x # k)
Last(s) == s[Len(s)]
\* every ordering of a finite set (iteration order of a hash container)
Orderings(S) ==
    {s \in [1..Cardinality(S) -> S] : \A i, j \in 1..Cardinality(S) : s[i] = s[j] => i = j}

RECURSIVE SumSlots(_, _)
SumSlots(values, cpus) ==
    IF cpus = {} THEN 0
    ELSE LET c == CHOOSE x \in cpus : TRUE
         IN values[c] + SumSlots(values, cpus \ {c})

\* `across_cpus_val += cpu_val` over 0..num_cpus in an integer of the given width
AcrossCpus(values, modulus) == SumSlots(values, Cpus) % modulus

\* `across_cpus_val - prev_val` without overflow checks (release profile)
WrappingSub(cur, prev, modulus) == (cur - prev + modulus) % modulus

\* Variant of PushPoint that drops the oldest point one point later.
PushPoint_trim_late(l, tick, delta) ==
    Append(IF Len(l) > window_size + 1 THEN Tail(l) ELSE l, <<tick, delta>>)
\* `if l.len() as f64 > self.window_size { l.remove(0); }  l.push((tick, delta))`
PushPoint(l, tick, delta) ==
    Append(IF Len(l) > window_size THEN Tail(l) ELSE l, <<tick, delta>>)

\* Variant of AdvanceWindow that starts to scroll one tick early.
AdvanceWindow_early(w, tick) ==
    IF tick >= window_size THEN <<w[1] + 1, w[2] + 1>> ELSE w
\* `if self.tick_count > self.window_size { window[0] += 1.0; window[1] += 1.0 }`
AdvanceWindow(w, tick) ==
    IF tick > window_size THEN <<w[1] + 1, w[2] + 1>> ELSE w

Running == [status |-> "running", at |-> "run"]
Panicked(where) == [status |-> "panicked", at |-> where]
Failed(where) == [status |-> "failed", at |-> where]

NoPackets == [n |-> 0, bytes |-> 0]
ZeroSlots == [c \in Cpus |-> 0]
\* Variant of OneSeries that holds no point at all.
OneSeries_empty == <<>>
\* `vec![(0.0, 0.0); 1]`
OneSeries == <<<<0, 0>>>>
IdleXdp == [stage |-> 0, phase |-> "idle", ifindex |-> 0, src_mac |-> 0,
            len |-> 0, ptr |-> "none", val |-> 0, fail |-> 0, hdr |-> "unread",
            first |-> FALSE, ret |-> "none"]
NoCall == [op |-> "none", id |-> 0, val |-> "none"]
\* init_ebpf_programs before or after its zero-initialisation loops
NoZeroInit == [at |-> 0, absent |-> FALSE]
\* `ListState::default().with_selected(Some(0))`
None == -1
NewListState == 0
\* App::new, and `last_tick = Instant::now()` at the start of run
DEFAULT_CONTEXT_ID == 0
NewApp == [run_state |-> "Running", selected_context_id |-> DEFAULT_CONTEXT_ID,
           pc |-> "poll", elapsed |-> 0, handled |-> 0, passed |-> 0, events |-> 0]
Returned(op, i, val) == [op |-> op, id |-> i, val |-> val]

\* ------------------------------------------------------------------ Init
\* State after App::new: NetworkInterfaceContext::new (init_ebpf_programs
\* attached every interface and zero-initialised its counters) and
\* EthernetContext::new.
Init ==
    /\ maps = [t \in Tables |->
                 IF t \in LruTables THEN <<>>
                 ELSE [i \in Interfaces |-> ZeroSlots]]
    /\ lru = [t \in LruTables |-> <<>>]
    /\ attached = Interfaces
    /\ xdp = [c \in Cpus |-> IdleXdp]
    /\ npackets = 0
    /\ ntoggles = 0
    /\ proc = Running
    /\ upc = "idle"
    /\ to_remove = <<>>
    /\ ret = NoCall
    /\ app = NewApp
    /\ zero_init = NoZeroInit
    /\ src_macs_state = NewListState
    /\ displaying = {}
    /\ ni_tick_count = 0
    /\ ni_window = <<0, window_size>>
    /\ ni_cumul_packet_counts = [i \in Interfaces |-> 0]
    /\ ni_tick_packet_count_data = [i \in Interfaces |-> OneSeries]
    /\ ni_cumul_byte_counts = [i \in Interfaces |-> 0]
    /\ ni_tick_byte_count_data = [i \in Interfaces |-> OneSeries]
    /\ collecting = [i \in Interfaces |-> TRUE]
    /\ xdp_link_ids = Interfaces
    /\ tick_count = 0
    /\ window = <<0, window_size>>
    /\ src_macs = <<>>
    /\ last_active_tick = <<>>
    /\ cumul_packet_counts = <<>>
    /\ tick_packet_count_data = <<>>
    /\ cumul_byte_counts = <<>>
    /\ tick_byte_count_data = <<>>
    /\ counted = [t \in PacketTables |->
                    IF t = IF_PKT THEN [i \in Interfaces |-> NoPackets] ELSE <<>>]
    /\ rx_since = [m \in Macs |-> NoPackets]
    /\ idle_from = <<>>
    /\ evicted_at = <<>>

\* ------------------------------------------------- kernel: try_xdp_tsndt
\* The four lookup-then-update blocks of try_xdp_tsndt, in program order.
StageTable(stage) ==
    CASE stage = 1 -> IF_PKT [] stage = 2 -> IF_BYTE
      [] stage = 3 -> MAC_PKT [] OTHER -> MAC_BYTE
StageKey(rec) == IF rec.stage <= 2 THEN rec.ifindex ELSE rec.src_mac
StageInc(rec) == IF rec.stage \in {1, 3} THEN 1 ELSE rec.len
StageModulus(stage) == IF stage \in {1, 3} THEN U32 ELSE U64

\* Variant of ptr_at that accepts a frame one byte short of the header.
ptr_at_short(len) == ~(0 + ETH_HLEN > len + 1)
\* ptr_at: `if start + offset + len > end { return Err(()) }` for an EthHdr at offset 0
ptr_at(len) == ~(0 + ETH_HLEN > len)

\* A pointer obtained by get_ptr_mut no longer designates the table's entry
\* once that entry has been deleted or evicted.
MarkStale(rec, t, gone) ==
    IF rec.phase = "upd" /\ rec.ptr = "live" /\ StageTable(rec.stage) = t
       /\ StageKey(rec) \in gone
    THEN [rec EXCEPT !.ptr = "stale"] ELSE rec

\* map.get_ptr_mut(&key) on CPU c: the current CPU's slot of the entry, if
\* present.  A lookup from the program marks the entry of an LRU table as
\* recently used.  Yields the program's locals and the LRU lists.
GetPtrMut(m, l, c, rec) ==
    LET t == StageTable(rec.stage)
        k == StageKey(rec)
        hit == k \in DOMAIN m[t]
    IN [rec |-> [rec EXCEPT !.phase = "upd",
                            !.ptr = IF hit THEN "live" ELSE "none",
                            !.val = IF hit THEN m[t][k][c] ELSE 0],
        lru |-> IF hit /\ t \in LruTables
                THEN [l EXCEPT ![t] = Append(SeqWithout(@, k), k)]
                ELSE l]

\* map.insert(&key, &value, 0) from the program on CPU c: an existing entry
\* gets this CPU's slot overwritten; a new entry has the other slots zero,
\* and an LRU table at capacity first evicts its least recently used entry.
InsertEvicts(m, l, t, k) ==
    IF k \notin DOMAIN m[t] /\ t \in LruTables /\ Len(l[t]) >= MAX_NUM_MAC_ADDRS
    THEN {Head(l[t])} ELSE {}
\* Variant of InsertFromProgram that replaces the whole value of an existing
\* entry, as an insert from userspace does.
InsertFromProgram_all_slots(m, l, t, k, c, value) ==
    LET kept == [x \in (DOMAIN m[t]) \ InsertEvicts(m, l, t, k) |-> m[t][x]]
    IN Put(Drop(kept, k), k, [x \in Cpus |-> IF x = c THEN value ELSE 0])
InsertFromProgram(m, l, t, k, c, value) ==
    IF k \in DOMAIN m[t]
    THEN [m[t] EXCEPT ![k][c] = value]
    ELSE LET kept == [x \in (DOMAIN m[t]) \ InsertEvicts(m, l, t, k) |-> m[t][x]]
         IN Put(kept, k, [x \in Cpus |-> IF x = c THEN value ELSE 0])

\* `if let Err(e) = map.insert(..)`: the insert that follows a lookup which
\* found nothing is refused by the kernel (rec.fail names the block whose
\* insert the kernel refuses for this packet, 0 for none).
InsertFails(rec) == rec.ptr = "none" /\ rec.fail = rec.stage

\* `*count += 1` / `*byte_count += packet_byte_count` through the pointer
\* (the program is built without overflow checks), or the insert of a fresh
\* value when the lookup found nothing.  Yields the tables, the LRU lists
\* and the keys evicted.
StoreOrInsert(m, l, c, rec) ==
    LET t == StageTable(rec.stage)
        k == StageKey(rec)
        inserts == rec.ptr = "none" /\ ~InsertFails(rec)
        gone == IF inserts THEN InsertEvicts(m, l, t, k) ELSE {}
    IN [maps |-> [m EXCEPT ![t] =
                    CASE rec.ptr = "live" ->
                            [@ EXCEPT ![k][c] = (rec.val + StageInc(rec)) % StageModulus(rec.stage)]
                      [] rec.ptr = "stale" -> @
                      [] InsertFails(rec) -> @
                      [] OTHER -> InsertFromProgram(m, l, t, k, c, StageInc(rec))],
        lru |-> IF inserts /\ t \in LruTables /\ k \notin DOMAIN m[t]
                THEN [l EXCEPT ![t] = Append(IF gone = {} THEN @ ELSE Tail(@), k)]
                ELSE l,
        table |-> t,
        gone |-> gone,
        ok |-> ~InsertFails(rec)]

\* Variant of XdpAction that lets a truncated frame pass.
XdpAction_passes_short(rec) ==
    IF InsertFails(rec) THEN "XDP_ABORTED" ELSE "XDP_PASS"
\* xdp_tsndt: `Ok(ret) => ret`, `Err(_) => xdp_action::XDP_ABORTED`, for
\* try_xdp_tsndt ending after the update of the stage it is in.
XdpAction(rec) ==
    IF InsertFails(rec) \/ (rec.stage = 2 /\ ~ptr_at(rec.len))
    THEN "XDP_ABORTED" ELSE "XDP_PASS"

\* Where try_xdp_tsndt continues after the update of a stage (`first`
\* remembers for the byte block that the packet block found no entry): a refused
\* insert returns at once; the header check follows the interface counters
\* and a failed check ends the program; the last block is followed by Ok.
\* `let src_mac = unsafe { (*eth_hdr).src_addr }` follows the header check.
AfterStage(rec) ==
    IF rec.stage = 4 \/ InsertFails(rec) \/ (rec.stage = 2 /\ ~ptr_at(rec.len))
    THEN [IdleXdp EXCEPT !.ret = XdpAction(rec), !.len = rec.len, !.hdr = rec.hdr]
    ELSE [rec EXCEPT !.stage = @ + 1, !.phase = "get", !.ptr = "none", !.val = 0,
                     !.hdr = IF rec.stage = 2 THEN "read" ELSE @,
                     !.first = rec.stage \in {1, 3} /\ rec.ptr = "none"]

NewPacket(i, m, len) ==
    [IdleXdp EXCEPT !.stage = 1, !.phase = "get", !.ifindex = i, !.src_mac = m, !.len = len]
\* a packet for which the kernel refuses the insert of block `fail`
NewPacketFailing(i, m, len, fail) == [NewPacket(i, m, len) EXCEPT !.fail = fail]

\* try_xdp_tsndt run from its current position to its end with nothing else
\* running in between.
RECURSIVE RunToEnd(_, _, _, _)
RunToEnd(m, l, c, rec) ==
    IF rec.phase = "idle" THEN [maps |-> m, lru |-> l, rec |-> rec, done |-> {}]
    ELSE LET g == GetPtrMut(m, l, c, rec)
             u == StoreOrInsert(m, g.lru, c, g.rec)
             r == RunToEnd(u.maps, u.lru, c, AfterStage(g.rec))
         IN [r EXCEPT !.done = @ \cup (IF u.ok THEN {rec.stage} ELSE {})]

user_and_links == <<attached, ntoggles, proc, upc, to_remove, ret, app, zero_init, viewvars,
                    nivars, linkvars, ethvars>>

\* History: `counted` after the program has updated packet-counter table t
\* for a packet of len bytes under key k (hit: the update reached the entry).
CountedAfter(t, k, len, hit, new_maps) ==
    [counted EXCEPT ![t] =
        [x \in DOMAIN new_maps[t] |->
            IF x = k /\ hit
            THEN IF k \in DOMAIN counted[t]
                 THEN [n |-> counted[t][k].n + 1, bytes |-> counted[t][k].bytes + len]
                 ELSE [n |-> 1, bytes |-> len]
            ELSE counted[t][x]]]
\* History: a full frame from address m has arrived.
FrameArrived(m, len) ==
    /\ rx_since' = IF ptr_at(len)
                   THEN [rx_since EXCEPT ![m] = [n |-> @.n + 1, bytes |-> @.bytes + len]]
                   ELSE rx_since
    /\ idle_from' = IF ptr_at(len) THEN Drop(idle_from, m) ELSE idle_from

\* A packet from address m, len bytes long, arrives on attached interface i
\* and is processed on CPU c while nothing else runs.
XdpRun(c, rec) ==
    /\ proc = Running
    /\ \A x \in Cpus : xdp[x].phase = "idle"
    /\ rec.ifindex \in attached
    /\ npackets' = npackets + 1
    /\ LET k == RunToEnd(maps, lru, c, rec)
           with_if == CountedAfter(IF_PKT, rec.ifindex, rec.len, 1 \in k.done, k.maps)
       IN /\ maps' = k.maps
          /\ lru' = k.lru
          /\ xdp' = [xdp EXCEPT ![c] = k.rec]
          /\ counted' = IF 3 \in k.done
                        THEN [with_if EXCEPT ![MAC_PKT] =
                                CountedAfter(MAC_PKT, rec.src_mac, rec.len, TRUE, k.maps)[MAC_PKT]]
                        ELSE with_if
    /\ FrameArrived(rec.src_mac, rec.len)
    /\ UNCHANGED <<user_and_links, evicted_at>>
XdpPacket(c, i, m, len) == XdpRun(c, NewPacket(i, m, len))

\* A burst of n header-only frames from address m on interface i, processed
\* back to back on CPU c between two steps of userspace.
\* The first frame finds or creates the four entries; each further frame
\* finds them and adds to the slot of CPU c through the pointer.
RunTimes(m, l, c, rec, n) ==
    LET k == RunToEnd(m, l, c, rec)
        key(t) == IF t \in LruTables THEN rec.src_mac ELSE rec.ifindex
        inc(t) == IF t \in PacketTables THEN 1 ELSE rec.len
        modulus(t) == IF t \in PacketTables THEN U32 ELSE U64
    IN [k EXCEPT !.maps =
            [t \in Tables |->
                [k.maps[t] EXCEPT ![key(t)][c] = (@ + (n - 1) * inc(t)) % modulus(t)]]]
XdpBurst(c, i, m, n) ==
    /\ proc = Running
    /\ \A x \in Cpus : xdp[x].phase = "idle"
    /\ i \in attached
    /\ npackets' = npackets + 1
    /\ LET k == RunTimes(maps, lru, c, NewPacket(i, m, ETH_HLEN), n)
           more(t, x) == IF x \in DOMAIN counted[t] THEN counted[t][x] ELSE NoPackets
       IN /\ maps' = k.maps
          /\ lru' = k.lru
          /\ xdp' = [xdp EXCEPT ![c] = k.rec]
          /\ counted' =
                [t \in PacketTables |->
                    [x \in DOMAIN k.maps[t] |->
                        IF x = (IF t = IF_PKT THEN i ELSE m)
                        THEN [n |-> more(t, x).n + n, bytes |-> more(t, x).bytes + n * ETH_HLEN]
                        ELSE counted[t][x]]]
    /\ rx_since' = [rx_since EXCEPT ![m] = [n |-> @.n + n, bytes |-> @.bytes + n * ETH_HLEN]]
    /\ idle_from' = Drop(idle_from, m)
    /\ UNCHANGED <<user_and_links, evicted_at>>

\* The same packet when other CPUs and userspace run concurrently: the
\* program runs up to and including its first lookup.
XdpReceive(c, i, m, len) ==
    /\ proc = Running
    /\ xdp[c].phase = "idle"
    /\ i \in attached
    /\ npackets' = npackets + 1
    /\ LET g == GetPtrMut(maps, lru, c, NewPacket(i, m, len))
       IN xdp' = [xdp EXCEPT ![c] = g.rec] /\ lru' = g.lru
    /\ FrameArrived(m, len)
    /\ UNCHANGED <<maps, user_and_links, counted, evicted_at>>

\* The lookup of the next table.
XdpGet(c) ==
    /\ proc = Running
    /\ xdp[c].phase = "get"
    /\ LET g == GetPtrMut(maps, lru, c, xdp[c])
       IN xdp' = [xdp EXCEPT ![c] = g.rec] /\ lru' = g.lru
    /\ UNCHANGED <<maps, npackets, user_and_links, hvars>>

\* The store or insert that follows a lookup.
XdpUpd(c) ==
    /\ proc = Running
    /\ xdp[c].phase = "upd"
    /\ LET u == StoreOrInsert(maps, lru, c, xdp[c])
       IN /\ maps' = u.maps
          /\ lru' = u.lru
          /\ xdp' = [x \in Cpus |->
                       IF x = c THEN AfterStage(xdp[c])
                       ELSE MarkStale(xdp[x], u.table, u.gone)]
          /\ counted' = IF u.table \in PacketTables
                        THEN CountedAfter(u.table, StageKey(xdp[c]), xdp[c].len,
                                          xdp[c].ptr # "stale" /\ u.ok, u.maps)
                        ELSE counted
    /\ UNCHANGED <<npackets, user_and_links, rx_since, idle_from, evicted_at>>

\* Variant of ZeroInitIfAbsent that removes the interface's entry instead.
ZeroInitIfAbsent_removes(m, t, i) == [m EXCEPT ![t] = Drop(@, i)]
\* ------------------------------------------- userspace: attach / detach
\* `if map.get(&index, 0).is_err() { map.insert(index, zeros, 0)?; }`
ZeroInitIfAbsent(m, t, i) ==
    IF i \in DOMAIN m[t] THEN m ELSE [m EXCEPT ![t] = Put(@, i, ZeroSlots)]

\* Variant of attach_ebpf_program that zeroes the interface's kernel counters
\* on every attach, present or not.
attach_ebpf_program_resets(i, hook_ok) ==
    IF i \notin Interfaces
    THEN UNCHANGED <<proc, maps, attached, xdp_link_ids,
                     ni_tick_packet_count_data, ni_tick_byte_count_data>>
    ELSE IF ~hook_ok
    THEN /\ proc' = Panicked("attach_ebpf_program")
         /\ UNCHANGED <<maps, attached, xdp_link_ids,
                        ni_tick_packet_count_data, ni_tick_byte_count_data>>
    ELSE /\ attached' = attached \cup {i}
         /\ xdp_link_ids' = xdp_link_ids \cup {i}
         /\ maps' = [maps EXCEPT ![IF_PKT] = Put(@, i, ZeroSlots),
                                 ![IF_BYTE] = Put(@, i, ZeroSlots)]
         /\ UNCHANGED <<proc, ni_tick_packet_count_data, ni_tick_byte_count_data>>
\* NetworkInterfaceModel::attach_ebpf_program: an index find_interface does
\* not know is an Err before anything is done; hook_ok is whether
\* program.attach succeeds (its Err is unwrapped).  The entries of a known
\* interface exist in both tables from startup on, so the insert of zeros
\* (and its `?`) is never attempted afterwards.
attach_ebpf_program(i, hook_ok) ==
    IF i \notin Interfaces
    THEN UNCHANGED <<proc, maps, attached, xdp_link_ids,
                     ni_tick_packet_count_data, ni_tick_byte_count_data>>
    ELSE IF ~hook_ok
    THEN /\ proc' = Panicked("attach_ebpf_program")
         /\ UNCHANGED <<maps, attached, xdp_link_ids,
                        ni_tick_packet_count_data, ni_tick_byte_count_data>>
    ELSE /\ attached' = attached \cup {i}
         /\ xdp_link_ids' = xdp_link_ids \cup {i}
         /\ maps' = ZeroInitIfAbsent(ZeroInitIfAbsent(maps, IF_PKT, i), IF_BYTE, i)
         /\ UNCHANGED <<proc, ni_tick_packet_count_data, ni_tick_byte_count_data>>

\* What attach_ebpf_program gives its caller: "panic" when it unwinds.
AttachResult(i, hook_ok) ==
    IF i \notin Interfaces THEN "Err" ELSE IF hook_ok THEN "Ok" ELSE "panic"

\* Variant of detach_ebpf_program that goes on without a recorded link id.
detach_ebpf_program_unchecked(i, hook_ok) ==
    /\ xdp_link_ids' = xdp_link_ids \ {i}
    /\ IF ~hook_ok /\ i \in xdp_link_ids
       THEN /\ proc' = Panicked("detach_ebpf_program")
            /\ UNCHANGED <<maps, attached,
                           ni_tick_packet_count_data, ni_tick_byte_count_data>>
       ELSE /\ attached' = attached \ {i}
            /\ maps' = maps
            /\ ni_tick_packet_count_data' =
                  [x \in Interfaces |-> IF x = i THEN OneSeries ELSE ni_tick_packet_count_data[x]]
            /\ ni_tick_byte_count_data' =
                  [x \in Interfaces |-> IF x = i THEN OneSeries ELSE ni_tick_byte_count_data[x]]
            /\ UNCHANGED proc
\* NetworkInterfaceModel::detach_ebpf_program: `xdp_link_ids.remove(&index)`
\* comes first; without a link id the call is an Err, with one the id has
\* left the map before program.detach is tried (its Err is unwrapped).
detach_ebpf_program(i, hook_ok) ==
    IF i \notin xdp_link_ids
    THEN UNCHANGED <<proc, maps, attached, xdp_link_ids,
                     ni_tick_packet_count_data, ni_tick_byte_count_data>>
    ELSE
    /\ xdp_link_ids' = xdp_link_ids \ {i}
    /\ IF ~hook_ok
       THEN /\ proc' = Panicked("detach_ebpf_program")
            /\ UNCHANGED <<maps, attached,
                           ni_tick_packet_count_data, ni_tick_byte_count_data>>
       ELSE /\ attached' = attached \ {i}
            /\ maps' = ZeroInitIfAbsent(ZeroInitIfAbsent(maps, IF_PKT, i), IF_BYTE, i)
            /\ ni_tick_packet_count_data' = [ni_tick_packet_count_data EXCEPT ![i] = OneSeries]
            /\ ni_tick_byte_count_data' = [ni_tick_byte_count_data EXCEPT ![i] = OneSeries]
            /\ UNCHANGED proc
DetachResult(i, hook_ok) ==
    IF i \notin xdp_link_ids THEN "Err" ELSE IF hook_ok THEN "Ok" ELSE "panic"

\* NetworkInterfaceModel::toggle_ebpf_program, called for key 't' on the
\* selected interface between two ticks.
other_on_toggle == <<lru, xdp, npackets, upc, to_remove, ni_tick_count, ni_window,
                     ni_cumul_packet_counts, ni_cumul_byte_counts, ethvars, hvars>>
\* The value a call hands back; a call that unwinds hands back nothing.
ReturnOf(op, i, result) == IF result = "panic" THEN ret ELSE Returned(op, i, result)
toggle_ebpf_program(i, hook_ok) ==
    /\ proc = Running
    /\ upc = "idle"
    /\ ntoggles' = ntoggles + 1
    /\ IF i \notin DOMAIN collecting
       THEN \* `self.collecting.get(&interface_index)` is None
            /\ ret' = Returned("toggle", i, "Err")
            /\ UNCHANGED <<maps, attached, proc, xdp_link_ids, collecting,
                           ni_tick_packet_count_data, ni_tick_byte_count_data>>
       ELSE IF collecting[i]
       THEN /\ detach_ebpf_program(i, hook_ok)
            /\ collecting' = IF DetachResult(i, hook_ok) = "Ok"
                             THEN [collecting EXCEPT ![i] = FALSE] ELSE collecting
            /\ ret' = ReturnOf("toggle", i, DetachResult(i, hook_ok))
       ELSE /\ attach_ebpf_program(i, hook_ok)
            /\ collecting' = IF AttachResult(i, hook_ok) = "Ok"
                             THEN [collecting EXCEPT ![i] = TRUE] ELSE collecting
            /\ ret' = ReturnOf("toggle", i, AttachResult(i, hook_ok))
    /\ UNCHANGED other_on_toggle

\* attach_ebpf_program and detach_ebpf_program called on their own, with any
\* index their signature admits.
AttachCall(i, hook_ok) ==
    /\ proc = Running
    /\ upc = "idle"
    /\ ntoggles' = ntoggles + 1
    /\ attach_ebpf_program(i, hook_ok)
    /\ ret' = ReturnOf("attach", i, AttachResult(i, hook_ok))
    /\ UNCHANGED <<collecting, other_on_toggle>>
DetachCall(i, hook_ok) ==
    /\ proc = Running
    /\ upc = "idle"
    /\ ntoggles' = ntoggles + 1
    /\ detach_ebpf_program(i, hook_ok)
    /\ ret' = ReturnOf("detach", i, DetachResult(i, hook_ok))
    /\ UNCHANGED <<collecting, other_on_toggle>>

\* ------------------------------------------------- userspace: startup
\* State when NetworkInterfaceContext::new calls init_ebpf_programs: the
\* program is loaded but attached nowhere, the tables are empty, and the
\* fields of the model hold the values `new` has prepared for them.
InitBoot ==
    /\ maps = [t \in Tables |-> <<>>]
    /\ lru = [t \in LruTables |-> <<>>]
    /\ attached = {}
    /\ xdp = [c \in Cpus |-> IdleXdp]
    /\ npackets = 0
    /\ ntoggles = 0
    /\ proc = Running
    /\ upc = "boot_attach"
    /\ to_remove = <<>>
    /\ ret = NoCall
    /\ app = NewApp
    /\ zero_init = NoZeroInit
    /\ src_macs_state = NewListState
    /\ displaying = {}
    /\ ni_tick_count = 0
    /\ ni_window = <<0, window_size>>
    /\ ni_cumul_packet_counts = [i \in Interfaces |-> 0]
    /\ ni_tick_packet_count_data = [i \in Interfaces |-> OneSeries]
    /\ ni_cumul_byte_counts = [i \in Interfaces |-> 0]
    /\ ni_tick_byte_count_data = [i \in Interfaces |-> OneSeries]
    /\ collecting = [i \in Interfaces |-> TRUE]
    /\ xdp_link_ids = {}
    /\ tick_count = 0
    /\ window = <<0, window_size>>
    /\ src_macs = <<>>
    /\ last_active_tick = <<>>
    /\ cumul_packet_counts = <<>>
    /\ tick_packet_count_data = <<>>
    /\ cumul_byte_counts = <<>>
    /\ tick_byte_count_data = <<>>
    /\ counted = [t \in PacketTables |-> <<>>]
    /\ rx_since = [m \in Macs |-> NoPackets]
    /\ idle_from = <<>>
    /\ evicted_at = <<>>

boot_unchanged == <<lru, xdp, npackets, ntoggles, to_remove, ret, app, viewvars, nivars, collecting,
                    ethvars, rx_since, idle_from, evicted_at>>

\* One round of `for interface in interfaces { program.attach(..).unwrap();
\* xdp_link_ids.insert(..) }`, the interfaces taken in index order.
BootAttach(hook_ok) ==
    /\ proc = Running
    /\ upc = "boot_attach"
    /\ LET i == CHOOSE x \in Interfaces \ xdp_link_ids :
                    \A y \in Interfaces \ xdp_link_ids : x <= y
       IN IF hook_ok
          THEN /\ attached' = attached \cup {i}
               /\ xdp_link_ids' = xdp_link_ids \cup {i}
               /\ upc' = IF xdp_link_ids' = Interfaces THEN "boot_init_packet" ELSE upc
               /\ UNCHANGED proc
          ELSE /\ proc' = Panicked("init_ebpf_programs")
               /\ UNCHANGED <<attached, xdp_link_ids, upc>>
    /\ UNCHANGED <<maps, counted, zero_init, boot_unchanged>>

\* Variant of BootInit that leaves the tables as the packets made them.
BootInit_skips(t, init_ok) ==
    /\ proc = Running
    /\ upc = (IF t = IF_PKT THEN "boot_init_packet" ELSE "boot_init_byte")
    /\ upc' = (IF t = IF_PKT THEN "boot_init_byte" ELSE "idle")
    /\ UNCHANGED <<maps, counted, proc>>
    /\ UNCHANGED <<attached, xdp_link_ids, zero_init, boot_unchanged>>
\* `for interface in interfaces { if map.get(&index, 0).is_err() {
\* map.insert(index, zeros, 0)?; } }` for one of the two interface tables;
\* a refused insert (init_ok false) makes init_ebpf_programs return Err,
\* which `new` unwraps.  After the second table startup is complete.
BootInit(t, init_ok) ==
    /\ proc = Running
    /\ upc = (IF t = IF_PKT THEN "boot_init_packet" ELSE "boot_init_byte")
    /\ IF init_ok \/ Interfaces \subseteq DOMAIN maps[t]
       THEN /\ maps' = [maps EXCEPT ![t] =
                          [i \in Interfaces |->
                              IF i \in DOMAIN maps[t] THEN maps[t][i] ELSE ZeroSlots]]
            /\ counted' = IF t = IF_PKT
                          THEN [counted EXCEPT ![t] =
                                  [i \in Interfaces |->
                                      IF i \in DOMAIN counted[t] THEN counted[t][i]
                                      ELSE NoPackets]]
                          ELSE counted
            /\ upc' = (IF t = IF_PKT THEN "boot_init_byte" ELSE "idle")
            /\ UNCHANGED proc
       ELSE /\ proc' = Panicked("NetworkInterfaceContext::new")
            /\ UNCHANGED <<maps, counted, upc>>
    /\ UNCHANGED <<attached, xdp_link_ids, zero_init, boot_unchanged>>

\* The same loops one map call at a time, the interfaces taken in index
\* order: zero_init.at interfaces of the table have been handled.
\* `map.get(&interface.index, 0).is_err()` for the next interface.
BootStage(t) == IF t = IF_PKT THEN "boot_init_packet" ELSE "boot_init_byte"
\* The loop goes on to the next interface; after the last one, to the next
\* table or to the end of startup.
BootAdvance(t) ==
    IF zero_init.at + 1 = NumInterfaces
    THEN /\ zero_init' = NoZeroInit
         /\ upc' = (IF t = IF_PKT THEN "boot_init_byte" ELSE "idle")
    ELSE /\ zero_init' = [at |-> zero_init.at + 1, absent |-> FALSE]
         /\ UNCHANGED upc
BootGet(t) ==
    /\ proc = Running
    /\ upc = BootStage(t)
    /\ ~zero_init.absent
    /\ IF zero_init.at + 1 \in DOMAIN maps[t]
       THEN BootAdvance(t)
       ELSE zero_init' = [zero_init EXCEPT !.absent = TRUE] /\ UNCHANGED upc
    /\ UNCHANGED <<maps, counted, proc, attached, xdp_link_ids, boot_unchanged>>
\* `map.insert(interface.index, PerCpuValues::try_from(vec![0; num_cpus])?, 0)?`
\* after a `get` that returned Err: an insert from userspace with flags 0
\* stores the given value for every CPU, whether or not the key has an entry
\* by now.
BootZero(t, init_ok) ==
    /\ proc = Running
    /\ upc = BootStage(t)
    /\ zero_init.absent
    /\ LET i == zero_init.at + 1
       IN IF init_ok
          THEN /\ maps' = [maps EXCEPT ![t] = Put(@, i, ZeroSlots)]
               /\ counted' = IF t = IF_PKT /\ i \notin DOMAIN counted[t]
                             THEN [counted EXCEPT ![t] = Put(@, i, NoPackets)]
                             ELSE counted
               /\ BootAdvance(t)
               /\ UNCHANGED proc
          ELSE /\ proc' = Panicked("NetworkInterfaceContext::new")
               /\ UNCHANGED <<maps, counted, upc, zero_init>>
    /\ UNCHANGED <<attached, xdp_link_ids, boot_unchanged>>

\* ---------------------------------- userspace: NetworkInterfaceModel tick
\* NetworkInterfaceModel::on_tick (tick_count is incremented first, also
\* in a pass that fails): the loop over the packet table, then the loop over
\* the byte table, one point per known interface in each.  The subtraction
\* and the sum are plain u32 / u64 arithmetic: with overflow checks they
\* panic, without they wrap.  A lookup that finds no entry is an Err (`?`).
\* Either ends the pass where it is: the interfaces handled before have
\* their point, the others have not (self.interfaces is in the order the
\* system lists the interfaces, which is not known).
NiPrevPkt(i) == ni_cumul_packet_counts[i]
NiPrevByte(i) == ni_cumul_byte_counts[i]
NiCurPkt(i) == AcrossCpus(maps[IF_PKT][i], U32)
NiCurByte(i) == AcrossCpus(maps[IF_BYTE][i], U64)
NiPktMissing == {i \in Interfaces : i \notin DOMAIN maps[IF_PKT]}
NiByteMissing == {i \in Interfaces : i \notin DOMAIN maps[IF_BYTE]}
NiPktFaulty ==
    {i \in Interfaces \ NiPktMissing :
        NiCurPkt(i) < NiPrevPkt(i) \/ SumSlots(maps[IF_PKT][i], Cpus) >= U32}
NiByteFaulty ==
    {i \in Interfaces \ NiByteMissing :
        NiCurByte(i) < NiPrevByte(i) \/ SumSlots(maps[IF_BYTE][i], Cpus) >= U64}
NiArithFault == NiPktFaulty # {} \/ NiByteFaulty # {}

\* `if l.len() as f64 > self.window_size { l.remove(0); }`
TrimOldest(l) == IF Len(l) > window_size THEN Tail(l) ELSE l

\* The packet loop with its body completed for the interfaces in done and
\* begun (as far as the trim) for those in begun.
NiPacketLoop(done, begun) ==
    /\ ni_tick_packet_count_data' =
          [i \in Interfaces |->
              IF i \in done
              THEN PushPoint(ni_tick_packet_count_data[i], ni_tick_count + 1,
                             WrappingSub(NiCurPkt(i), NiPrevPkt(i), U32))
              ELSE IF i \in begun THEN TrimOldest(ni_tick_packet_count_data[i])
              ELSE ni_tick_packet_count_data[i]]
    /\ ni_cumul_packet_counts' =
          [i \in Interfaces |-> IF i \in done THEN NiCurPkt(i) ELSE ni_cumul_packet_counts[i]]
\* Variant of NiByteLoop that appends the new point without removing the
\* oldest one first.
NiByteLoop_untrimmed(done, begun) ==
    /\ ni_tick_byte_count_data' =
          [i \in Interfaces |->
              IF i \in done
              THEN Append(ni_tick_byte_count_data[i],
                          <<ni_tick_count + 1,
                            WrappingSub(NiCurByte(i), NiPrevByte(i), U64)>>)
              ELSE ni_tick_byte_count_data[i]]
    /\ ni_cumul_byte_counts' =
          [i \in Interfaces |-> IF i \in done THEN NiCurByte(i) ELSE ni_cumul_byte_counts[i]]
\* The byte loop, likewise.
NiByteLoop(done, begun) ==
    /\ ni_tick_byte_count_data' =
          [i \in Interfaces |->
              IF i \in done
              THEN PushPoint(ni_tick_byte_count_data[i], ni_tick_count + 1,
                             WrappingSub(NiCurByte(i), NiPrevByte(i), U64))
              ELSE IF i \in begun THEN TrimOldest(ni_tick_byte_count_data[i])
              ELSE ni_tick_byte_count_data[i]]
    /\ ni_cumul_byte_counts' =
          [i \in Interfaces |-> IF i \in done THEN NiCurByte(i) ELSE ni_cumul_byte_counts[i]]

\* How a loop that stops at interface f ends the process.
NiStopped(f, missing) ==
    IF f \in missing THEN Failed("NetworkInterfaceModel::on_tick")
    ELSE Panicked("NetworkInterfaceModel::on_tick")

NiOnTick ==
    /\ proc = Running
    /\ upc = "idle"
    /\ ni_tick_count < MaxTick
    /\ ni_tick_count' = ni_tick_count + 1
    /\ \/ \* the packet loop stops at interface f
          \E f \in NiPktMissing \cup NiPktFaulty :
          \E done \in SUBSET (Interfaces \ (NiPktMissing \cup
                                (IF f \in NiPktFaulty THEN NiPktFaulty ELSE {}))) :
             /\ NiPacketLoop(done, {f} \ NiPktMissing)
             /\ proc' = NiStopped(f, NiPktMissing)
             /\ UNCHANGED <<upc, ni_window, ni_cumul_byte_counts, ni_tick_byte_count_data>>
       \/ \* the packet loop completes and the byte loop stops at interface f
          /\ NiPktMissing = {}
          /\ \E f \in NiByteMissing \cup (IF NiPktFaulty = {} THEN NiByteFaulty ELSE {}) :
             \E done \in SUBSET (Interfaces \ (NiByteMissing \cup
                                   (IF f \in NiByteFaulty THEN NiByteFaulty ELSE {}))) :
                /\ NiPacketLoop(Interfaces, {})
                /\ NiByteLoop(done, {f} \ NiByteMissing)
                /\ proc' = NiStopped(f, NiByteMissing)
                /\ UNCHANGED <<upc, ni_window>>
       \/ \* both loops complete
          /\ NiPktMissing = {} /\ NiByteMissing = {}
          /\ NiPacketLoop(Interfaces, {})
          /\ NiByteLoop(Interfaces, {})
          /\ ni_window' = AdvanceWindow(ni_window, ni_tick_count + 1)
          /\ upc' = "eth_pkt"
          /\ UNCHANGED proc
    /\ UNCHANGED <<kvars, to_remove, ret, linkvars, ethvars, hvars>>

\* --------------------------------------- userspace: EthernetModel tick
\* First loop of EthernetModel::on_tick, over SRC_MAC_RX_PACKET_COUNTERS
\* (tick_count is incremented first).  An address without a last-active tick
\* is registered first (zero counts, empty series); the table is iterated in
\* hash order.  A sum or subtraction that overflows panics when the build
\* checks overflow: the addresses handled before have their point, the
\* others have not.
EthNew == {m \in DOMAIN maps[MAC_PKT] : m \notin DOMAIN last_active_tick}
EthPrevPkt(m) == IF m \in EthNew THEN 0 ELSE cumul_packet_counts[m]
EthCurPkt(m) == AcrossCpus(maps[MAC_PKT][m], U32)
EthPktFaulty ==
    {m \in DOMAIN maps[MAC_PKT] :
        EthCurPkt(m) < EthPrevPkt(m) \/ SumSlots(maps[MAC_PKT][m], Cpus) >= U32}
EthPktArithFault == EthPktFaulty # {}

\* The loop with its body completed for the addresses in done and begun (as
\* far as the registration and the trim) for those in begun; the addresses it
\* registers enter the list in the order given.
EthPacketLoop(done, begun, order) ==
    LET tick == tick_count + 1
        new == EthNew \cap (done \cup begun)
        active == {m \in done : EthCurPkt(m) > EthPrevPkt(m)}
        old_series(m) == IF m \in EthNew THEN <<>> ELSE tick_packet_count_data[m]
    IN /\ tick_count' = tick
       /\ src_macs' = src_macs \o order
       /\ cumul_byte_counts' =
             [m \in (DOMAIN cumul_byte_counts) \cup new |->
                 IF m \in new THEN 0 ELSE cumul_byte_counts[m]]
       /\ tick_byte_count_data' =
             [m \in (DOMAIN tick_byte_count_data) \cup new |->
                 IF m \in new THEN <<>> ELSE tick_byte_count_data[m]]
       /\ cumul_packet_counts' =
             [m \in (DOMAIN cumul_packet_counts) \cup new |->
                 IF m \in done THEN EthCurPkt(m)
                 ELSE IF m \in new THEN 0 ELSE cumul_packet_counts[m]]
       /\ tick_packet_count_data' =
             [m \in (DOMAIN tick_packet_count_data) \cup new |->
                 IF m \in done
                 THEN PushPoint(old_series(m), tick,
                                WrappingSub(EthCurPkt(m), EthPrevPkt(m), U32))
                 ELSE IF m \in begun THEN TrimOldest(old_series(m))
                 ELSE tick_packet_count_data[m]]
       /\ last_active_tick' =
             [m \in (DOMAIN last_active_tick) \cup active |->
                 IF m \in active THEN tick ELSE last_active_tick[m]]
       /\ idle_from' = [m \in (DOMAIN idle_from) \cup active |->
                           IF m \in active THEN tick ELSE idle_from[m]]

EthReadPackets ==
    /\ proc = Running
    /\ upc = "eth_pkt"
    /\ \/ \* the loop stops at address f
          \E f \in EthPktFaulty :
          \E done \in SUBSET ((DOMAIN maps[MAC_PKT]) \ EthPktFaulty) :
          \E order \in Orderings(EthNew \cap done) :
             /\ EthPacketLoop(done, {f}, order \o (IF f \in EthNew THEN <<f>> ELSE <<>>))
             /\ proc' = Panicked("EthernetModel::on_tick")
             /\ UNCHANGED <<upc, window>>
       \/ \* the loop completes
          \E order \in Orderings(EthNew) :
             /\ EthPacketLoop(DOMAIN maps[MAC_PKT], {}, order)
             /\ upc' = "eth_byte"
             /\ UNCHANGED <<proc, window>>
    /\ UNCHANGED <<kvars, to_remove, ret, nivars, linkvars, counted, rx_since, evicted_at>>

\* Second loop, over SRC_MAC_RX_BYTE_COUNTERS (its series and cumulative
\* value are unwrapped), then the scan of last_active_tick that collects the
\* addresses to remove; without any, the pass ends with the window update.
EthCurByte(m) == AcrossCpus(maps[MAC_BYTE][m], U64)
EthByteUntrackedKeys ==
    {m \in DOMAIN maps[MAC_BYTE] :
        m \notin DOMAIN tick_byte_count_data \/ m \notin DOMAIN cumul_byte_counts}
EthByteUntracked == EthByteUntrackedKeys # {}
EthByteFaulty ==
    {m \in (DOMAIN maps[MAC_BYTE]) \ EthByteUntrackedKeys :
        EthCurByte(m) < cumul_byte_counts[m] \/ SumSlots(maps[MAC_BYTE][m], Cpus) >= U64}
EthByteArithFault == EthByteFaulty # {}

\* The loop with its body completed for the addresses in done and begun (as
\* far as the trim) for those in begun.
EthByteLoop(done, begun) ==
    /\ tick_byte_count_data' =
          [m \in DOMAIN tick_byte_count_data |->
              IF m \in done
              THEN PushPoint(tick_byte_count_data[m], tick_count,
                      WrappingSub(EthCurByte(m), cumul_byte_counts[m], U64))
              ELSE IF m \in begun THEN TrimOldest(tick_byte_count_data[m])
              ELSE tick_byte_count_data[m]]
    /\ cumul_byte_counts' =
          [m \in DOMAIN cumul_byte_counts |->
              IF m \in done THEN EthCurByte(m) ELSE cumul_byte_counts[m]]

\* Variant of TimedOut that fires one tick before the timeout has elapsed.
TimedOut_early(tick, last_active) ==
    tick - IDLE_MAC_ADDR_TIMEOUT_NUM_TICKS + 1 >= last_active
\* `if self.tick_count - IDLE_MAC_ADDR_TIMEOUT_NUM_TICKS >= *last_active_tick`
TimedOut(tick, last_active) == tick - IDLE_MAC_ADDR_TIMEOUT_NUM_TICKS >= last_active
\* Variant of IdleMacs that selects an address two ticks late.
IdleMacs_late ==
    {m \in DOMAIN last_active_tick : TimedOut(tick_count - 2, last_active_tick[m])}
IdleMacs == {m \in DOMAIN last_active_tick : TimedOut(tick_count, last_active_tick[m])}

\* Variant of WindowAfterEvictions that moves the window while addresses
\* are still waiting to be evicted.
WindowAfterEvictions_before(remaining) == AdvanceWindow(window, tick_count)
\* `if self.tick_count > self.window_size { .. }` comes after the loop over
\* to_remove: the window moves once no address remains to be evicted.
WindowAfterEvictions(remaining) ==
    IF remaining = <<>> THEN AdvanceWindow(window, tick_count) ELSE window

EthReadBytes ==
    /\ proc = Running
    /\ upc = "eth_byte"
    /\ \/ \* the loop stops at address f
          \E f \in EthByteUntrackedKeys \cup EthByteFaulty :
          \E done \in SUBSET ((DOMAIN maps[MAC_BYTE]) \ (EthByteUntrackedKeys \cup
                                (IF f \in EthByteFaulty THEN EthByteFaulty ELSE {}))) :
             /\ EthByteLoop(done, {f} \ EthByteUntrackedKeys)
             /\ proc' = Panicked("EthernetModel::on_tick")
             /\ UNCHANGED <<upc, to_remove, window>>
       \/ \* the loop completes
          /\ ~EthByteUntracked
          /\ EthByteLoop(DOMAIN maps[MAC_BYTE], {})
          /\ \E order \in Orderings(IdleMacs) :
                /\ to_remove' = order
                /\ upc' = IF order = <<>> THEN "idle" ELSE "eth_evict_pkt"
                /\ window' = WindowAfterEvictions(order)
          /\ UNCHANGED proc
    /\ UNCHANGED <<kvars, ret, nivars, linkvars, hvars, tick_count, src_macs,
                   last_active_tick, cumul_packet_counts, tick_packet_count_data>>

\* Vec::swap_remove at the position of the first occurrence, if any
SwapRemoveFirst(v, k) ==
    IF \E j \in 1..Len(v) : v[j] = k
    THEN LET index == CHOOSE j \in 1..Len(v) : v[j] = k /\ \A h \in 1..(j - 1) : v[h] # k
         IN SubSeq([v EXCEPT ![index] = Last(v)], 1, Len(v) - 1)
    ELSE v

\* Variant of KernelRemove that reports success and leaves the entry in place.
KernelRemove_keeps(t, k) == UNCHANGED <<maps, lru, xdp, counted>>
\* map.remove(key) from userspace: the entry leaves the table and its LRU list
KernelRemove(t, k) ==
    /\ maps' = [maps EXCEPT ![t] = Drop(@, k)]
    /\ lru' = [lru EXCEPT ![t] = SeqWithout(@, k)]
    /\ xdp' = [c \in Cpus |-> MarkStale(xdp[c], t, {k})]
    /\ counted' = IF t \in PacketTables THEN [counted EXCEPT ![t] = Drop(@, k)]
                  ELSE counted

\* Body of `for src_mac in &to_remove` up to the removal from the packet
\* table: the local state goes first; removing an absent key is an Err (`?`).
EthEvictPacket ==
    /\ proc = Running
    /\ upc = "eth_evict_pkt"
    /\ LET src_mac == Head(to_remove)
       IN /\ cumul_byte_counts' = Drop(cumul_byte_counts, src_mac)
          /\ cumul_packet_counts' = Drop(cumul_packet_counts, src_mac)
          /\ tick_byte_count_data' = Drop(tick_byte_count_data, src_mac)
          /\ tick_packet_count_data' = Drop(tick_packet_count_data, src_mac)
          /\ last_active_tick' = Drop(last_active_tick, src_mac)
          /\ src_macs' = SwapRemoveFirst(src_macs, src_mac)
          /\ IF src_mac \in DOMAIN maps[MAC_PKT]
             THEN /\ KernelRemove(MAC_PKT, src_mac)
                  /\ upc' = "eth_evict_byte"
                  /\ UNCHANGED proc
             ELSE /\ proc' = Failed("EthernetModel::on_tick")
                  /\ UNCHANGED <<maps, lru, xdp, upc, counted>>
          /\ evicted_at' = Put(evicted_at, src_mac, tick_count)
          /\ rx_since' = [rx_since EXCEPT ![src_mac] = NoPackets]
    /\ UNCHANGED <<attached, npackets, ntoggles, to_remove, ret, tick_count, window,
                   nivars, linkvars, idle_from>>

\* Rest of the loop body: the removal from the byte table; after the last
\* address the pass ends with the window update.
EthEvictByte ==
    /\ proc = Running
    /\ upc = "eth_evict_byte"
    /\ LET src_mac == Head(to_remove)
       IN IF src_mac \in DOMAIN maps[MAC_BYTE]
          THEN /\ KernelRemove(MAC_BYTE, src_mac)
               /\ to_remove' = Tail(to_remove)
               /\ upc' = IF Tail(to_remove) = <<>> THEN "idle" ELSE "eth_evict_pkt"
               /\ window' = WindowAfterEvictions(Tail(to_remove))
               /\ UNCHANGED proc
          ELSE /\ proc' = Failed("EthernetModel::on_tick")
               /\ UNCHANGED <<maps, lru, xdp, upc, to_remove, window, counted>>
    /\ UNCHANGED <<attached, npackets, ntoggles, ret, tick_count, src_macs, last_active_tick,
                   cumul_packet_counts, tick_packet_count_data,
                   cumul_byte_counts, tick_byte_count_data, nivars, linkvars,
                   rx_since, idle_from, evicted_at>>

\* ------------------------------------------------- userspace: App::run
\* One iteration of `while self.run_state == AppRunState::Running`: draw,
\* `event::poll(timeout)`, at most one `event::read()` with its handling, then
\* `if last_tick.elapsed() >= tick_rate { for context in contexts {
\* context.handle_tick(bpf)?; } last_tick = Instant::now(); }`.
NumContexts == 2
NetworkInterfaceContextId == 0
EthernetContextId == 1
Keys == {"q", "Right", "Left", "Up", "Down", "t", "other"}
\* `tick_rate.saturating_sub(last_tick.elapsed())`
Timeout == IF app.elapsed >= TICK_RATE THEN 0 ELSE TICK_RATE - app.elapsed
\* the clock is read up to one unit past the tick period
Elapse(d) == IF app.elapsed + d > TICK_RATE + 1 THEN TICK_RATE + 1 ELSE app.elapsed + d
AtPoll == proc = Running /\ upc = "idle" /\ app.run_state = "Running" /\ app.pc = "poll"
\* Variant of TickDue that is satisfied one time unit early.
TickDue_early == app.elapsed + 1 >= TICK_RATE
\* `last_tick.elapsed() >= tick_rate`
TickDue == app.elapsed >= TICK_RATE

\* Right / Left without modifiers move the selection round the contexts.
SelectedAfter(key) ==
    CASE key = "Right" -> IF app.selected_context_id + 1 < NumContexts
                          THEN app.selected_context_id + 1 ELSE 0
      [] key = "Left" -> IF app.selected_context_id > 0
                         THEN app.selected_context_id - 1 ELSE NumContexts - 1
      [] OTHER -> app.selected_context_id

\* The iteration as far as the tick test, when one event has been read
\* after `wait` units of polling and its handling took `took` units.
\* (events are counted up to MaxEvents)
CountEvent(n) == IF n < MaxEvents THEN n + 1 ELSE n
\* Variant of AfterEvent in which the loop starts its next iteration right
\* after the event, without the tick test.
AfterEvent_continue(wait, took) ==
    [app EXCEPT !.pc = "poll", !.elapsed = Elapse(wait + took),
                !.handled = 1, !.passed = 0, !.events = CountEvent(@)]
AfterEvent(wait, took) ==
    [app EXCEPT !.pc = "tick", !.elapsed = Elapse(wait + took),
                !.handled = 1, !.passed = 0, !.events = CountEvent(@)]

\* What the list widget does to the selection when it is rendered: it may
\* leave it alone, reset it to None for an empty list, or also move a
\* selection that is beyond the list to the last item.
Widgets == {"keeps", "clears", "clamps"}
\* EthernetView::render_list: an unset selection becomes 0 once the list has
\* entries; then the list widget is rendered with the selection.
render_list(sel, len, widget) ==
    LET s == IF sel = None /\ len > 0 THEN 0 ELSE sel
    IN  CASE widget = "keeps" -> s
          [] widget = "clears" -> IF len = 0 THEN None ELSE s
          [] OTHER -> IF len = 0 THEN None ELSE IF s >= len THEN len - 1 ELSE s
\* The selection after `terminal.draw`, which draws the active context only.
Drawn(widget) ==
    IF app.selected_context_id = EthernetContextId
    THEN render_list(src_macs_state, Len(src_macs), widget)
    ELSE src_macs_state
\* `src_macs_state.selected().unwrap_or(0)`
Selected(sel) == IF sel = None THEN 0 ELSE sel
\* Up: `candidate = if selected > 0 { selected - 1 } else { 0 }`
KeyUp(sel) == IF Selected(sel) > 0 THEN Selected(sel) - 1 ELSE 0
\* Down: `if candidate < src_macs.len() { select(Some(candidate)) }`
KeyDown(sel) == IF Selected(sel) + 1 < Len(src_macs) THEN Selected(sel) + 1 ELSE sel
toggle_display(src_mac) ==
    IF src_mac \in displaying THEN displaying \ {src_mac}
    ELSE displaying \cup {src_mac}
\* 't': `src_macs.get(selected)` is Some, or the warning is logged.
KeyToggle(sel) ==
    IF Selected(sel) < Len(src_macs) THEN toggle_display(src_macs[Selected(sel) + 1])
    ELSE displaying
\* The view after the draw and after the key (if any) that the iteration
\* passes to the active context; 'q', Right and Left are handled by App.
ViewAfter(key, widget) ==
    IF app.selected_context_id = EthernetContextId
    THEN /\ src_macs_state' = CASE key = "Up" -> KeyUp(Drawn(widget))
                                [] key = "Down" -> KeyDown(Drawn(widget))
                                [] OTHER -> Drawn(widget)
         /\ displaying' = IF key = "t" THEN KeyToggle(Drawn(widget)) ELSE displaying
    ELSE UNCHANGED viewvars
\* `src_macs.sort()`
RECURSIVE Sorted(_)
Sorted(s) ==
    IF s = <<>> THEN <<>>
    ELSE LET i == CHOOSE j \in 1..Len(s) :
                     /\ \A k \in 1..Len(s) : s[j] <= s[k]
                     /\ \A k \in 1..(j - 1) : s[k] # s[j]
         IN  <<s[i]>> \o Sorted(SubSeq(s, 1, i - 1) \o SubSeq(s, i + 1, Len(s)))

\* poll returns false: the timeout has run out (the thread may wake late).
LoopPollTimeout(late) ==
    /\ AtPoll
    /\ app' = [app EXCEPT !.pc = "tick", !.elapsed = Elapse(Timeout + late),
                          !.handled = 0, !.passed = 0]
    /\ \E widget \in Widgets : ViewAfter("none", widget)
    /\ UNCHANGED <<kvars, proc, upc, to_remove, ret, zero_init, nivars, linkvars,
                   ethvars, hvars>>

\* poll returns true and the event read is a key that changes no model:
\* 'q' stops the loop (break), Right / Left change the selected context, any
\* other key reaches only the view, or EthernetModel::displaying.
LoopKey(key, wait, took) ==
    /\ AtPoll
    /\ wait <= Timeout
    /\ key = "t" => app.selected_context_id # NetworkInterfaceContextId
    /\ app' = IF key = "q"
              THEN [app EXCEPT !.run_state = "Stopped", !.elapsed = Elapse(wait),
                               !.handled = 1, !.passed = 0, !.events = CountEvent(@)]
              ELSE [AfterEvent(wait, took) EXCEPT !.selected_context_id = SelectedAfter(key)]
    /\ \E widget \in Widgets : ViewAfter(key, widget)
    /\ UNCHANGED <<kvars, proc, upc, to_remove, ret, zero_init, nivars, linkvars,
                   ethvars, hvars>>

\* poll returns true and the event read is key 't' while the interface
\* context is selected: toggle_ebpf_program on the interface selected in the
\* list; its Err is logged.
LoopKeyToggle(i, hook_ok, wait, took) ==
    /\ AtPoll
    /\ wait <= Timeout
    /\ app.selected_context_id = NetworkInterfaceContextId
    /\ toggle_ebpf_program(i, hook_ok)
    /\ app' = AfterEvent(wait, took)
    /\ UNCHANGED <<zero_init, viewvars>>

\* Key 's' while the Ethernet context is selected sorts the address list.
LoopKeySort(wait, took) ==
    /\ AtPoll
    /\ wait <= Timeout
    /\ app.selected_context_id = EthernetContextId
    /\ src_macs' = Sorted(src_macs)
    /\ app' = AfterEvent(wait, took)
    /\ \E widget \in Widgets : ViewAfter("s", widget)
    /\ UNCHANGED <<kvars, proc, upc, to_remove, ret, zero_init, nivars, linkvars, hvars,
                   tick_count, window, last_active_tick, cumul_packet_counts,
                   tick_packet_count_data, cumul_byte_counts, tick_byte_count_data>>

\* `last_tick.elapsed() >= tick_rate` is false: the iteration ends.
LoopNoTick ==
    /\ proc = Running
    /\ app.pc = "tick"
    /\ ~TickDue
    /\ app' = [app EXCEPT !.pc = "poll"]
    /\ UNCHANGED <<kvars, proc, upc, to_remove, ret, zero_init, viewvars, nivars, linkvars,
                   ethvars, hvars>>

\* The test is true: handle_tick of the first context.
LoopTickNi ==
    /\ app.pc = "tick"
    /\ TickDue
    /\ NiOnTick
    /\ app' = [app EXCEPT !.pc = "pass", !.passed = @ + 1]
    /\ UNCHANGED <<zero_init, viewvars>>

\* handle_tick of the second context, one step of it; after its last step
\* `last_tick = Instant::now()` ends the iteration.
AfterEthStep ==
    /\ app.pc = "pass"
    /\ app' = IF upc' = "idle" /\ proc' = Running
              THEN [app EXCEPT !.pc = "poll", !.elapsed = 0] ELSE app
    /\ UNCHANGED <<zero_init, viewvars>>

\* ------------------------------------------------------- specifications
\* An address has sent a frame before.
Seen(m) == rx_since[m].n > 0 \/ m \in DOMAIN evicted_at

\* Packets are processed one at a time and between two passes of userspace.
\* Header-only frames from every address arrive on the first interface, each
\* flow on its CPU; addresses are interchangeable, so they first appear in
\* the order 1, 2, ...; no key is pressed.
Next ==
    \/ \E m \in Macs :
          /\ npackets < MaxPackets
          /\ upc = "idle"
          /\ \A x \in 1..(m - 1) : Seen(x)
          /\ XdpPacket(RssCpu(m), 1, m, ETH_HLEN)
    \/ NiOnTick /\ UNCHANGED outside_models
    \/ EthReadPackets /\ UNCHANGED outside_models
    \/ EthReadBytes /\ UNCHANGED outside_models
    \/ EthEvictPacket /\ UNCHANGED outside_models
    \/ EthEvictByte /\ UNCHANGED outside_models

Spec == Init /\ [][Next]_vars

\* Key 't' is pressed between ticks; header-only frames from one address
\* arrive on every attached interface, each interface on its CPU.
NextLink ==
    \/ \E i \in Interfaces :
          npackets < MaxPacketsLink /\ upc = "idle" /\ XdpPacket(RssCpu(i), i, 1, ETH_HLEN)
    \/ \E i \in Interfaces, hook_ok \in BOOLEAN :
          ntoggles < MaxToggles /\ toggle_ebpf_program(i, hook_ok) /\ UNCHANGED outside_models
    \/ NiOnTick /\ UNCHANGED outside_models
    \/ EthReadPackets /\ UNCHANGED outside_models
    \/ EthReadBytes /\ UNCHANGED outside_models
    \/ EthEvictPacket /\ UNCHANGED outside_models
    \/ EthEvictByte /\ UNCHANGED outside_models

SpecLink == Init /\ [][NextLink]_vars

\* toggle_ebpf_program, attach_ebpf_program and detach_ebpf_program are
\* called between ticks with any interface index, known or not, in any
\* order; header-only frames from one address arrive on the first interface
\* while it is attached.
UnknownInterface == NumInterfaces + 1
InterfaceIds == Interfaces \cup {UnknownInterface}
NextCall ==
    \/ npackets < MaxPacketsCall /\ upc = "idle" /\ XdpPacket(RssCpu(1), 1, 1, ETH_HLEN)
    \/ \E i \in InterfaceIds, hook_ok \in BOOLEAN :
          ntoggles < MaxToggles /\ toggle_ebpf_program(i, hook_ok) /\ UNCHANGED outside_models
    \/ \E i \in InterfaceIds, hook_ok \in BOOLEAN :
          ntoggles < MaxToggles /\ AttachCall(i, hook_ok) /\ UNCHANGED outside_models
    \/ \E i \in InterfaceIds, hook_ok \in BOOLEAN :
          ntoggles < MaxToggles /\ DetachCall(i, hook_ok) /\ UNCHANGED outside_models
    \/ NiOnTick /\ UNCHANGED outside_models
    \/ EthReadPackets /\ UNCHANGED outside_models
    \/ EthReadBytes /\ UNCHANGED outside_models
    \/ EthEvictPacket /\ UNCHANGED outside_models
    \/ EthEvictByte /\ UNCHANGED outside_models

SpecCall == Init /\ [][NextCall]_vars

\* Startup and what follows it without ticks: frames from one address,
\* truncated or header-only, arrive on every interface from the moment the
\* program is attached to it, each interface on its CPU, and the kernel may
\* refuse any one insert of the program.
NextBoot ==
    \/ \E hook_ok \in BOOLEAN : BootAttach(hook_ok)
    \/ \E t \in {IF_PKT, IF_BYTE}, init_ok \in BOOLEAN : BootInit(t, init_ok)
    \/ \E i \in Interfaces, len \in PacketLens, fail \in 0..4 :
          /\ npackets < MaxPacketsBoot
          /\ upc \in {"boot_attach", "boot_init_packet", "boot_init_byte", "idle"}
          /\ XdpRun(RssCpu(i), NewPacketFailing(i, 1, len, fail))

SpecBoot == InitBoot /\ [][NextBoot]_vars

\* Startup and the run after it: header-only frames from one address arrive
\* on every interface while the program is attached to it, and the kernel may
\* refuse an insert of the program into an interface table; key 't' toggles
\* any interface, attach and detach are also called on their own with any
\* index; passes run in between.
NextLife ==
    \/ \E hook_ok \in BOOLEAN : BootAttach(hook_ok)
    \/ \E t \in {IF_PKT, IF_BYTE}, init_ok \in BOOLEAN : BootInit(t, init_ok)
    \/ \E i \in Interfaces, fail \in 0..2 :
          /\ npackets < MaxPacketsLife
          /\ upc \in {"boot_attach", "boot_init_packet", "boot_init_byte", "idle"}
          /\ XdpRun(RssCpu(i), NewPacketFailing(i, 1, ETH_HLEN, fail))
    \/ \E i \in InterfaceIds, hook_ok \in BOOLEAN :
          ntoggles < MaxCallsLife /\ toggle_ebpf_program(i, hook_ok) /\ UNCHANGED outside_models
    \/ \E i \in InterfaceIds, hook_ok \in BOOLEAN :
          ntoggles < MaxCallsLife /\ AttachCall(i, hook_ok) /\ UNCHANGED outside_models
    \/ \E i \in InterfaceIds, hook_ok \in BOOLEAN :
          ntoggles < MaxCallsLife /\ DetachCall(i, hook_ok) /\ UNCHANGED outside_models
    \/ ni_tick_count < MaxTickLife /\ NiOnTick /\ UNCHANGED outside_models
    \/ EthReadPackets /\ UNCHANGED outside_models
    \/ EthReadBytes /\ UNCHANGED outside_models
    \/ EthEvictPacket /\ UNCHANGED outside_models
    \/ EthEvictByte /\ UNCHANGED outside_models

SpecLife == InitBoot /\ [][NextLife]_vars

\* Startup one map call at a time: header-only frames from one address arrive
\* on every interface the program is attached to, between any two map calls
\* of init_ebpf_programs and after it.
NextInit ==
    \/ \E hook_ok \in BOOLEAN : BootAttach(hook_ok)
    \/ \E t \in {IF_PKT, IF_BYTE} : BootGet(t)
    \/ \E t \in {IF_PKT, IF_BYTE}, init_ok \in BOOLEAN : BootZero(t, init_ok)
    \/ \E i \in Interfaces :
          /\ npackets < MaxPacketsInit
          /\ upc \in {"boot_attach", "boot_init_packet", "boot_init_byte", "idle"}
          /\ XdpPacket(RssCpu(i), i, 1, ETH_HLEN)

SpecInit == InitBoot /\ [][NextInit]_vars

\* Heavy traffic between passes: bursts of one frame or of as many frames as
\* a packet counter can hold, from one address on the first interface, on
\* any CPU.
NextBurst ==
    \/ \E c \in Cpus, n \in {1, U32 - 1} :
          npackets < MaxBursts /\ upc = "idle" /\ XdpBurst(c, 1, 1, n)
    \/ NiOnTick /\ UNCHANGED outside_models
    \/ EthReadPackets /\ UNCHANGED outside_models
    \/ EthReadBytes /\ UNCHANGED outside_models
    \/ EthEvictPacket /\ UNCHANGED outside_models
    \/ EthEvictByte /\ UNCHANGED outside_models

SpecBurst == Init /\ [][NextBurst]_vars

\* The program against the aggregator: header-only frames from one address
\* arrive on the first interface, one at a time, and the steps of a pass
\* (with its evictions) fall between any two map helper calls of the
\* program.
NextRace ==
    \/ /\ npackets < MaxPacketsRace
       /\ \A x \in Cpus : xdp[x].phase = "idle"
       /\ XdpReceive(RssCpu(1), 1, 1, ETH_HLEN)
    \/ \E c \in Cpus : XdpGet(c)
    \/ \E c \in Cpus : XdpUpd(c)
    \/ ni_tick_count < MaxTickRace /\ NiOnTick /\ UNCHANGED outside_models
    \/ EthReadPackets /\ UNCHANGED outside_models
    \/ EthReadBytes /\ UNCHANGED outside_models
    \/ EthEvictPacket /\ UNCHANGED outside_models
    \/ EthEvictByte /\ UNCHANGED outside_models

SpecRace == Init /\ [][NextRace]_vars

\* CPUs and userspace interleave at every map helper call; frames from one
\* address, truncated or header-only, arrive on the first interface, on any
\* CPU.
NextConc ==
    \/ \E c \in Cpus, len \in PacketLens :
          npackets < MaxPacketsConc /\ XdpReceive(c, 1, 1, len)
    \/ \E c \in Cpus : XdpGet(c)
    \/ \E c \in Cpus : XdpUpd(c)
    \/ NiOnTick /\ UNCHANGED outside_models
    \/ EthReadPackets /\ UNCHANGED outside_models
    \/ EthReadBytes /\ UNCHANGED outside_models
    \/ EthEvictPacket /\ UNCHANGED outside_models
    \/ EthEvictByte /\ UNCHANGED outside_models

SpecConc == Init /\ [][NextConc]_vars

\* The program alone: header-only frames from one address arrive on the first
\* interface on any CPU, and the CPUs interleave at every map helper call;
\* userspace only holds the tables open.
NextCpus ==
    \/ \E c \in Cpus :
          npackets < MaxPacketsCpus /\ XdpReceive(c, 1, 1, ETH_HLEN)
    \/ \E c \in Cpus : XdpGet(c)
    \/ \E c \in Cpus : XdpUpd(c)

SpecCpus == Init /\ [][NextCpus]_vars

\* The driver loop: keys and timeouts in any order, header-only frames
\* from one address on the first interface between two iterations or between
\* the event and the tick test.
NextLoop ==
    \/ \E late \in 0..1 : LoopPollTimeout(late)
    \/ \E key \in Keys, wait \in 0..TICK_RATE, took \in 0..1 :
          app.events < MaxEvents /\ LoopKey(key, wait, took)
    \/ \E i \in Interfaces, hook_ok \in BOOLEAN, wait \in 0..TICK_RATE, took \in 0..1 :
          app.events < MaxEvents /\ LoopKeyToggle(i, hook_ok, wait, took)
    \/ LoopNoTick
    \/ ni_tick_count < MaxTickLoop /\ LoopTickNi
    \/ EthReadPackets /\ AfterEthStep
    \/ EthReadBytes /\ AfterEthStep
    \/ EthEvictPacket /\ AfterEthStep
    \/ EthEvictByte /\ AfterEthStep
    \/ npackets < MaxPacketsLoop /\ upc = "idle" /\ XdpPacket(RssCpu(1), 1, 1, ETH_HLEN)

SpecLoop == Init /\ [][NextLoop]_vars

\* The address list under the user's hands: keys of the Ethernet context
\* (select, toggle, sort) and context switches in any order, passes with
\* their idle evictions, header-only frames from every address on the first
\* interface between two iterations.
NextSelect ==
    \/ \E late \in 0..1 : LoopPollTimeout(late)
    \/ \E key \in Keys \ {"q", "other"}, took \in 0..1 : LoopKey(key, 0, took)
    \/ \E took \in 0..1 : LoopKeySort(0, took)
    \/ LoopNoTick
    \/ ni_tick_count < MaxTickSelect /\ LoopTickNi
    \/ EthReadPackets /\ AfterEthStep
    \/ EthReadBytes /\ AfterEthStep
    \/ EthEvictPacket /\ AfterEthStep
    \/ EthEvictByte /\ AfterEthStep
    \/ \E m \in Macs :
          /\ npackets < MaxPacketsSelect
          /\ AtPoll
          /\ \A x \in 1..(m - 1) : Seen(x)
          /\ XdpPacket(RssCpu(m), 1, m, ETH_HLEN)

SpecSelect == Init /\ [][NextSelect]_vars

\* The driver loop with input events that never cease: keys may arrive in
\* every iteration without end (toggles a bounded number of times).  The
\* thread keeps running: poll returns at the latest when its timeout has run
\* out, and a handler or a step of a pass that has been called completes.
DriverStep ==
    \/ \E late \in 0..1 : LoopPollTimeout(late)
    \/ \E key \in {"q", "Left", "other"}, wait \in 0..TICK_RATE, took \in 0..1 :
          LoopKey(key, wait, took)
    \/ \E i \in Interfaces, hook_ok \in BOOLEAN, wait \in 0..TICK_RATE, took \in 0..1 :
          ntoggles < MaxTogglesLive /\ LoopKeyToggle(i, hook_ok, wait, took)
    \/ LoopNoTick
    \/ ni_tick_count < MaxTickLive /\ LoopTickNi
    \/ EthReadPackets /\ AfterEthStep
    \/ EthReadBytes /\ AfterEthStep
    \/ EthEvictPacket /\ AfterEthStep
    \/ EthEvictByte /\ AfterEthStep
NextLive ==
    \/ DriverStep
    \/ npackets < MaxPacketsLive /\ upc = "idle" /\ XdpPacket(RssCpu(1), 1, 1, ETH_HLEN)

SpecLive == Init /\ [][NextLive]_vars /\ WF_vars(DriverStep)

\* ================================================================ claims
\* The userspace steps of one aggregation pass, recognised from a pair of
\* states: the step is taken (it moves on or ends the process in on_tick).
NiPassStep ==
    /\ upc = "idle"
    /\ upc' = "eth_pkt" \/ (proc' # proc /\ proc'.at = "NetworkInterfaceModel::on_tick")
EthPacketPassStep == upc = "eth_pkt" /\ (upc' # upc \/ proc' # proc)
EthBytePassStep == upc = "eth_byte" /\ (upc' # upc \/ proc' # proc)

\* the series got exactly one more point, (tick, delta), at its end
AppendedOne(old, new, tick, delta) ==
    /\ new # <<>>
    /\ Last(new) = <<tick, delta>>
    /\ LET rest == SubSeq(new, 1, Len(new) - 1)
       IN rest = old \/ (old # <<>> /\ rest = Tail(old))
TrackedPkt == (DOMAIN maps[MAC_PKT]) \cap (DOMAIN last_active_tick)
TrackedByte == (DOMAIN maps[MAC_BYTE]) \cap (DOMAIN cumul_byte_counts)

\* C1: in every aggregation pass, a key whose summed counter (packets or
\* bytes) is lower than its stored cumulative value gets a point whose delta
\* is the current summed value (never a negative or wrapped delta).
C1_ResetDeltaIsCurrent ==
    [][ /\ NiPassStep =>
             \A i \in Interfaces :
                /\ NiCurPkt(i) < NiPrevPkt(i) =>
                      Last(ni_tick_packet_count_data'[i]) = <<ni_tick_count + 1, NiCurPkt(i)>>
                /\ NiCurByte(i) < NiPrevByte(i) =>
                      Last(ni_tick_byte_count_data'[i]) = <<ni_tick_count + 1, NiCurByte(i)>>
        /\ EthPacketPassStep =>
             \A m \in TrackedPkt :
                EthCurPkt(m) < cumul_packet_counts[m] =>
                   /\ m \in DOMAIN tick_packet_count_data'
                   /\ tick_packet_count_data'[m] # tick_packet_count_data[m]
                   /\ Last(tick_packet_count_data'[m]) = <<tick_count + 1, EthCurPkt(m)>>
        /\ EthBytePassStep =>
             \A m \in TrackedByte :
                EthCurByte(m) < cumul_byte_counts[m] =>
                   /\ m \in DOMAIN tick_byte_count_data'
                   /\ tick_byte_count_data'[m] # tick_byte_count_data[m]
                   /\ Last(tick_byte_count_data'[m]) = <<tick_count, EthCurByte(m)>>
      ]_vars

\* C2: in an aggregation pass at tick t, a key whose summed counter c is at
\* least its stored cumulative value p gets exactly one point (t, c - p) in
\* the series of that counter, and the stored value becomes c.
C2_OnePointPerPass ==
    [][ /\ NiPassStep =>
             \A i \in Interfaces :
                /\ NiCurPkt(i) >= NiPrevPkt(i) =>
                      /\ AppendedOne(ni_tick_packet_count_data[i], ni_tick_packet_count_data'[i],
                                     ni_tick_count + 1, NiCurPkt(i) - NiPrevPkt(i))
                      /\ ni_cumul_packet_counts'[i] = NiCurPkt(i)
                /\ NiCurByte(i) >= NiPrevByte(i) =>
                      /\ AppendedOne(ni_tick_byte_count_data[i], ni_tick_byte_count_data'[i],
                                     ni_tick_count + 1, NiCurByte(i) - NiPrevByte(i))
                      /\ ni_cumul_byte_counts'[i] = NiCurByte(i)
        /\ EthPacketPassStep =>
             \A m \in DOMAIN maps[MAC_PKT] :
                EthCurPkt(m) >= EthPrevPkt(m) =>
                   /\ m \in DOMAIN tick_packet_count_data'
                   /\ AppendedOne(IF m \in EthNew THEN <<>> ELSE tick_packet_count_data[m],
                                  tick_packet_count_data'[m],
                                  tick_count + 1, EthCurPkt(m) - EthPrevPkt(m))
                   /\ cumul_packet_counts'[m] = EthCurPkt(m)
        /\ EthBytePassStep =>
             \A m \in TrackedByte :
                EthCurByte(m) >= cumul_byte_counts[m] =>
                   /\ AppendedOne(tick_byte_count_data[m], tick_byte_count_data'[m],
                                  tick_count, EthCurByte(m) - cumul_byte_counts[m])
                   /\ cumul_byte_counts'[m] = EthCurByte(m)
      ]_vars

\* Every series the two aggregators hold.
AllSeries ==
    {ni_tick_packet_count_data[i] : i \in Interfaces}
    \cup {ni_tick_byte_count_data[i] : i \in Interfaces}
    \cup {tick_packet_count_data[m] : m \in DOMAIN tick_packet_count_data}
    \cup {tick_byte_count_data[m] : m \in DOMAIN tick_byte_count_data}

Quiescent == \A c \in Cpus : xdp[c].phase = "idle"
ByteTableOf(t) == IF t = IF_PKT THEN IF_BYTE ELSE MAC_BYTE

\* C4: for every key of a kernel table, under every interleaving of packets
\* on different CPUs with userspace reads and deletions, the sum of the CPU
\* slots of its packet counter is the number of packets counted since its
\* entry was created, and (when no packet and no pass is in progress) the sum
\* of the slots of its byte counter is the total length of those packets.
C4_PerCpuSumsExact ==
    \A t \in PacketTables : \A k \in DOMAIN maps[t] :
        /\ SumSlots(maps[t][k], Cpus) = counted[t][k].n
        /\ (Quiescent /\ upc = "idle") =>
              /\ k \in DOMAIN maps[ByteTableOf(t)]
              /\ SumSlots(maps[ByteTableOf(t)][k], Cpus) = counted[t][k].bytes

\* C5 as stated: the pass at tick t removes an address from tracking only
\* if t minus its last active tick is strictly greater than the timeout.
C5_EvictsOnlyPastTimeout ==
    [][ \A m \in DOMAIN last_active_tick :
           m \notin DOMAIN last_active_tick' =>
              tick_count - last_active_tick[m] > IDLE_MAC_ADDR_TIMEOUT_NUM_TICKS ]_vars

\* C5, amended: the pass at tick t removes an address from tracking only if
\* t minus its last active tick is at least the timeout; an address whose
\* idle time is below the timeout is still tracked after the pass.
C5_EvictsOnlyAtTimeout ==
    [][ \A m \in DOMAIN last_active_tick :
           m \notin DOMAIN last_active_tick' =>
              tick_count - last_active_tick[m] >= IDLE_MAC_ADDR_TIMEOUT_NUM_TICKS ]_vars

\* A pass has just evicted an address idle for exactly the timeout and has
\* kept another one whose idle time is below the timeout.
C5_Witness ==
    /\ upc = "idle"
    /\ proc = Running
    /\ \E m \in (DOMAIN evicted_at) \cap (DOMAIN idle_from) :
          /\ m \notin DOMAIN last_active_tick
          /\ evicted_at[m] = tick_count
          /\ evicted_at[m] - idle_from[m] = IDLE_MAC_ADDR_TIMEOUT_NUM_TICKS
    /\ \E m \in DOMAIN last_active_tick :
          tick_count - last_active_tick[m] < IDLE_MAC_ADDR_TIMEOUT_NUM_TICKS

\* The address is in no local tracking structure and in no kernel table.
Absent(m) ==
    /\ m \notin DOMAIN last_active_tick
    /\ m \notin DOMAIN cumul_packet_counts
    /\ m \notin DOMAIN cumul_byte_counts
    /\ m \notin DOMAIN tick_packet_count_data
    /\ m \notin DOMAIN tick_byte_count_data
    /\ \A j \in 1..Len(src_macs) : src_macs[j] # m
    /\ m \notin DOMAIN maps[MAC_PKT]
    /\ m \notin DOMAIN maps[MAC_BYTE]

\* C6: an address last active at tick a, from which no further frame has
\* arrived, is absent from every local structure and from both kernel
\* address tables once the pass at tick a + timeout + 1 has completed.
C6_IdleAddressGone ==
    (upc = "idle" /\ proc = Running) =>
        \A m \in DOMAIN idle_from :
            tick_count >= idle_from[m] + IDLE_MAC_ADDR_TIMEOUT_NUM_TICKS + 1 => Absent(m)

\* The pass at tick a + timeout + 1 has completed for an address that was
\* tracked, went idle at tick a and was evicted by userspace.
C6_Witness ==
    /\ upc = "idle"
    /\ proc = Running
    /\ \E m \in (DOMAIN idle_from) \cap (DOMAIN evicted_at) :
          /\ tick_count = idle_from[m] + IDLE_MAC_ADDR_TIMEOUT_NUM_TICKS + 1
          /\ evicted_at[m] > idle_from[m]
          /\ Absent(m)

\* The eviction steps of a pass, recognised from a pair of states.
EthEvictPacketStep == upc = "eth_evict_pkt" /\ (upc' # upc \/ proc' # proc)
EthEvictByteStep == upc = "eth_evict_byte" /\ (upc' # upc \/ proc' # proc)

\* C7: when the eviction loop deletes an address whose kernel entry is
\* already absent, the deletion counts as success: no error ends the pass,
\* the loop goes on to the byte table and the remaining addresses, and after
\* the last one the window is advanced.
C7_AbsentKernelEntryIsSuccess ==
    [][ /\ (EthEvictPacketStep /\ Head(to_remove) \notin DOMAIN maps[MAC_PKT]) =>
              /\ proc' = Running
              /\ upc' = "eth_evict_byte"
        /\ (EthEvictByteStep /\ Head(to_remove) \notin DOMAIN maps[MAC_BYTE]) =>
              /\ proc' = Running
              /\ to_remove' = Tail(to_remove)
              /\ Tail(to_remove) = <<>> =>
                    /\ upc' = "idle"
                    /\ window' = AdvanceWindow(window, tick_count)
      ]_vars

\* Every point of the series was recorded after tick t.
PointsAfter(l, t) == \A j \in 1..Len(l) : l[j][1] > t

\* C8: an address evicted by idle timeout and seen again is a fresh entry.
\* Its registration starts from cumulative counts 0 and empty series (the
\* first point is the whole current count), every point it holds is later
\* than the eviction, and its stored counts cover only frames received
\* after the eviction.
C8_FreshAfterEviction ==
    [][ /\ EthPacketPassStep =>
             \A m \in EthNew \cap (DOMAIN evicted_at) \cap (DOMAIN last_active_tick') :
                /\ tick_packet_count_data'[m] = << <<tick_count + 1, EthCurPkt(m)>> >>
                /\ cumul_packet_counts'[m] = EthCurPkt(m)
                /\ tick_byte_count_data'[m] = <<>>
                /\ cumul_byte_counts'[m] = 0
        /\ \A m \in (DOMAIN evicted_at') \cap (DOMAIN last_active_tick') :
                /\ PointsAfter(tick_packet_count_data'[m], evicted_at'[m])
                /\ PointsAfter(tick_byte_count_data'[m], evicted_at'[m])
                /\ cumul_packet_counts'[m] <= rx_since'[m].n
                /\ cumul_byte_counts'[m] <= rx_since'[m].bytes
      ]_vars

\* An address evicted by idle timeout has sent frames again and the next
\* pass has registered it anew, with the counts of exactly those frames.
C8_Witness ==
    /\ upc = "idle"
    /\ proc = Running
    /\ \E m \in (DOMAIN evicted_at) \cap (DOMAIN last_active_tick) :
          /\ rx_since[m].n > 0
          /\ cumul_packet_counts[m] = rx_since[m].n
          /\ cumul_byte_counts[m] = rx_since[m].bytes
          /\ Len(tick_packet_count_data[m]) = 1
          /\ Len(tick_byte_count_data[m]) = 1

\* A key press that toggled interface i successfully.
ToggleOk(i) == ntoggles' = ntoggles + 1 /\ collecting'[i] # collecting[i]
BothSeriesOne(pkt, byte, i) == pkt[i] = OneSeries /\ byte[i] = OneSeries

C10_ToggleFollowsFlag ==
    [][ ntoggles' = ntoggles + 1 =>
          \E i \in Interfaces :
             \/ /\ collecting[i]
                /\ collecting' = [collecting EXCEPT ![i] = FALSE]
                /\ attached' = attached \ {i}
                /\ xdp_link_ids' = xdp_link_ids \ {i}
                /\ proc' = Running
             \/ /\ ~collecting[i]
                /\ collecting' = [collecting EXCEPT ![i] = TRUE]
                /\ attached' = attached \cup {i}
                /\ xdp_link_ids' = xdp_link_ids \cup {i}
                /\ proc' = Running
             \/ /\ collecting' = collecting
                /\ attached' = attached
                /\ proc' = Running
      ]_vars

\* ---------------------------------------------------------------- C11
\* A toggle, attach or detach call is made in this step.
CallStep == ntoggles' = ntoggles + 1
\* What a refused call must leave alone: the process, the collecting flags,
\* the link handles, the installed programs, every series and cumulative
\* value, the kernel tables.
NothingTouched ==
    /\ proc' = proc
    /\ UNCHANGED <<collecting, xdp_link_ids, attached, maps, lru, nivars, ethvars>>
\* This step is the call op(i) and its precondition fails.
PreconditionFails(op, i) ==
    \E hook_ok \in BOOLEAN :
        \/ op = "toggle" /\ i \notin Interfaces /\ toggle_ebpf_program(i, hook_ok)
        \/ op = "attach" /\ i \notin Interfaces /\ AttachCall(i, hook_ok)
        \/ op = "detach" /\ i \notin xdp_link_ids /\ DetachCall(i, hook_ok)

\* C11: a call whose precondition fails - toggle or attach with an index
\* outside the known interfaces, detach without a recorded link id - returns
\* Err to its caller, the process keeps running, and the collecting flags,
\* link ids, installed programs, series, cumulative values and kernel tables
\* are left as they were.
C11_RefusedCallChangesNothing ==
    [][\A op \in {"toggle", "attach", "detach"}, i \in InterfaceIds :
          PreconditionFails(op, i) =>
              /\ ret' = Returned(op, i, "Err")
              /\ NothingTouched]_vars
\* detach of a known interface without a link id was refused while the
\* process runs and the first interface has counted traffic
C11_Witness ==
    /\ proc = Running
    /\ ret.op = "detach" /\ ret.val = "Err" /\ ret.id \in Interfaces
    /\ ret.id \notin xdp_link_ids
    /\ ni_cumul_packet_counts[1] > 0

\* ---------------------------------------------------------------- C12
\* This step is attach(i) or detach(i) of a known interface, called on its
\* own or through toggle, whose program.attach / program.detach fails.
HookFails(i) ==
    \/ AttachCall(i, FALSE)
    \/ i \in xdp_link_ids /\ DetachCall(i, FALSE)
    \/ (~collecting[i] \/ i \in xdp_link_ids) /\ toggle_ebpf_program(i, FALSE)

\* C12: when installing or removing the hook fails during attach or detach
\* of a known interface, the call returns Err to its caller and the process
\* keeps running.
C12_HookFailureIsReturned ==
    [][\A i \in Interfaces :
          HookFails(i) => ret'.id = i /\ ret'.val = "Err" /\ proc' = Running]_vars

\* ---------------------------------------------------------------- C13
\* This step is attach(i) or detach(i), called on its own or through toggle,
\* and the call does not come back with Ok.
FailedCall(i) ==
    \E hook_ok \in BOOLEAN :
        \/ AttachCall(i, hook_ok) /\ AttachResult(i, hook_ok) # "Ok"
        \/ DetachCall(i, hook_ok) /\ DetachResult(i, hook_ok) # "Ok"
        \/ /\ i \in Interfaces
           /\ toggle_ebpf_program(i, hook_ok)
           /\ (IF collecting[i] THEN DetachResult(i, hook_ok)
               ELSE AttachResult(i, hook_ok)) # "Ok"

\* C13: attach and detach are all-or-nothing: when attach(i) or detach(i)
\* fails at any of its steps, the recorded link id of i, whether the program
\* is installed on i and the two series of i are as they were before the
\* call.
C13_AttachDetachAllOrNothing ==
    [][\A i \in InterfaceIds :
          FailedCall(i) =>
              /\ (i \in xdp_link_ids') = (i \in xdp_link_ids)
              /\ (i \in attached') = (i \in attached)
              /\ UNCHANGED <<ni_tick_packet_count_data, ni_tick_byte_count_data>>]_vars

\* ---------------------------------------------------------------- C14
\* What holds of every known interface and of the tracked addresses.
StartupState ==
    /\ \A i \in Interfaces :
          /\ i \in attached
          /\ i \in xdp_link_ids
          /\ collecting[i]
          /\ ni_cumul_packet_counts[i] = 0 /\ ni_cumul_byte_counts[i] = 0
          /\ i \in DOMAIN maps[IF_PKT] /\ i \in DOMAIN maps[IF_BYTE]
    /\ src_macs = <<>>
    /\ DOMAIN last_active_tick = {}
\* startup completes in this step
StartupDone == upc # "idle" /\ upc' = "idle" /\ ni_tick_count' = 0

\* C14: in the state startup ends in, every known interface has the program
\* attached and a link id recorded, its collecting flag is true, its stored
\* cumulative counts are 0 and both kernel tables hold an entry for it,
\* while no address is tracked.
C14_StateAfterStartup == [][StartupDone => StartupState']_vars
\* startup is complete, nothing has been aggregated yet, and a frame
\* arrived while startup was still running
C14_Witness ==
    /\ upc = "idle" /\ ni_tick_count = 0 /\ proc = Running
    /\ StartupState
    /\ npackets = 1
    /\ \E i \in Interfaces : SumSlots(maps[IF_PKT][i], Cpus) = 1

\* ---------------------------------------------------------------- C15
\* The program, run on CPU c for a packet with key k of table t, has left
\* the packet in this CPU's slot: added to the entry that was there, or as
\* a fresh entry.
Written(t, k, c, inc) ==
    /\ k \in DOMAIN maps'[t]
    /\ maps'[t][k][c] = IF k \in DOMAIN maps[t]
                        THEN (maps[t][k][c] + inc) % (IF t \in PacketTables THEN U32 ELSE U64)
                        ELSE inc
\* Both interface counters, the header check and both address counters.
AllSucceed(c, rec) ==
    /\ Written(IF_PKT, rec.ifindex, c, 1)
    /\ Written(IF_BYTE, rec.ifindex, c, rec.len)
    /\ rec.len >= ETH_HLEN
    /\ Written(MAC_PKT, rec.src_mac, c, 1)
    /\ Written(MAC_BYTE, rec.src_mac, c, rec.len)

\* C15: the program returns XDP_PASS for a packet if and only if the update
\* or fresh insertion of the interface counters, the header length check and
\* the update or fresh insertion of the address counters all succeed; in
\* every other case it returns XDP_ABORTED.
C15_PassIffAllSucceed ==
    [][\A i \in Interfaces, len \in PacketLens, fail \in 0..4 :
          LET rec == NewPacketFailing(i, 1, len, fail)
              c == RssCpu(i)
          IN XdpRun(c, rec) =>
                /\ xdp'[c].ret \in {"XDP_PASS", "XDP_ABORTED"}
                /\ (xdp'[c].ret = "XDP_PASS") <=> AllSucceed(c, rec)]_vars
\* one CPU has passed a packet and another has aborted one although the
\* frame was long enough (an insert was refused)
C15_Witness ==
    \E c, d \in Cpus :
        /\ xdp[c].ret = "XDP_PASS"
        /\ xdp[d].ret = "XDP_ABORTED"
        /\ rx_since[1].n = 2

\* ---------------------------------------------------------------- C16
\* C16: for a packet shorter than the Ethernet header the program returns
\* XDP_ABORTED without having read the header, and the two source-address
\* tables (and their LRU order) are exactly as they were before the packet.
C16_ShortPacketLeavesAddressTables ==
    [][\A i \in Interfaces, len \in PacketLens, fail \in 0..4 :
          (len < ETH_HLEN /\ XdpRun(RssCpu(i), NewPacketFailing(i, 1, len, fail))) =>
              /\ xdp'[RssCpu(i)].ret = "XDP_ABORTED"
              /\ xdp'[RssCpu(i)].hdr = "unread"
              /\ maps'[MAC_PKT] = maps[MAC_PKT]
              /\ maps'[MAC_BYTE] = maps[MAC_BYTE]
              /\ lru' = lru]_vars
\* a truncated frame was aborted after the interface counted it, while the
\* address tables hold an entry from an earlier full frame
C16_Witness ==
    \E c \in Cpus :
        /\ xdp[c].phase = "idle" /\ xdp[c].len = ETH_HLEN - 1
        /\ xdp[c].ret = "XDP_ABORTED" /\ xdp[c].hdr = "unread"
        /\ \E i \in DOMAIN maps[IF_BYTE] : maps[IF_BYTE][i][c] = ETH_HLEN - 1
        /\ 1 \in DOMAIN maps[MAC_PKT] /\ 1 \in DOMAIN maps[MAC_BYTE]

\* ---------------------------------------------------------------- C17
\* The window the claim gives for n completed passes.
WindowAfter(n) == IF n <= window_size THEN <<0, window_size>> ELSE <<n - window_size, n>>
\* Passes EthernetModel::on_tick has completed: tick_count is incremented at
\* the start of a pass, the window is moved at its end.
EthCompleted ==
    IF upc = "idle" \/ (upc = "eth_pkt" /\ proc.at # "EthernetModel::on_tick")
    THEN tick_count ELSE tick_count - 1
NiCompleted ==
    IF proc.at = "NetworkInterfaceModel::on_tick" THEN ni_tick_count - 1 ELSE ni_tick_count

\* C17: after n completed aggregation passes the display window of either
\* model is [0, W] when n <= W and [n - W, n] when n > W, and in every
\* reachable state hi - lo = W.
C17_WindowFollowsPasses ==
    /\ ni_window = WindowAfter(NiCompleted)
    /\ window = WindowAfter(EthCompleted)
    /\ ni_window[2] - ni_window[1] = window_size
    /\ window[2] - window[1] = window_size
\* more passes than the window is wide have completed and both windows have
\* scrolled
C17_Witness ==
    /\ upc = "idle" /\ proc = Running
    /\ ni_tick_count = window_size + 2 /\ tick_count = window_size + 2
    /\ ni_window = <<2, window_size + 2>>
    /\ window = <<2, window_size + 2>>

\* ---------------------------------------------------------------- C18
\* This step is a step of an aggregation pass in which a table operation
\* returns Err: the lookup of an interface that has no entry, or the removal
\* of an address that has none.
PassError ==
    \/ /\ \E i \in Interfaces : i \notin DOMAIN maps[IF_PKT] \/ i \notin DOMAIN maps[IF_BYTE]
       /\ NiOnTick
    \/ /\ to_remove # <<>> /\ Head(to_remove) \notin DOMAIN maps[MAC_PKT]
       /\ EthEvictPacket
    \/ /\ to_remove # <<>> /\ Head(to_remove) \notin DOMAIN maps[MAC_BYTE]
       /\ EthEvictByte

\* C18: an error raised inside an aggregation pass does not end the driver
\* loop: the run state stays Running (and a further pass follows in the next
\* tick period).
C18_PassErrorKeepsRunning == [][PassError => proc' = Running]_vars

\* ---------------------------------------------------------------- C19
\* C19: while a key stays in its kernel table, the packet count and the
\* byte count the aggregator sums for it are never smaller than at the read
\* before, also when a 32-bit packet counter or the 32-bit sum over the
\* CPUs reaches its maximum.  (Interface keys are never removed; an address
\* that has never been evicted by the aggregator has stayed in its table,
\* the LRU tables holding fewer addresses than their capacity.)
C19_SumsNeverDecrease ==
    [][/\ NiPassStep =>
            \A i \in Interfaces :
                NiCurPkt(i) >= NiPrevPkt(i) /\ NiCurByte(i) >= NiPrevByte(i)
       /\ EthPacketPassStep =>
            \A m \in TrackedPkt \ DOMAIN evicted_at : EthCurPkt(m) >= EthPrevPkt(m)
       /\ EthBytePassStep =>
            \A m \in TrackedByte \ DOMAIN evicted_at :
                EthCurByte(m) >= cumul_byte_counts[m]]_vars

\* ---------------------------------------------------------------- C20
\* This step is the insert of the program on CPU c after a lookup that
\* found its key absent from the table.
InsertAfterMiss(c) == xdp[c].phase = "upd" /\ xdp[c].ptr = "none" /\ XdpUpd(c)
\* This step is the byte-counter update on CPU c for a packet whose key the
\* program found absent from the packet-counter table.
BytesAfterMiss(c) ==
    xdp[c].phase = "upd" /\ xdp[c].stage \in {2, 4} /\ xdp[c].first /\ XdpUpd(c)

\* C20: when the program processes a packet whose interface key or address
\* key is absent (never seen, or removed at any earlier moment), it inserts a
\* fresh entry that counts this packet - packets 1, bytes the packet length -
\* and passes the packet instead of aborting.
C20_AbsentKeyIsInsertedAndPassed ==
    [][\A c \in Cpus :
          LET t == StageTable(xdp[c].stage)
              k == StageKey(xdp[c])
          IN /\ InsertAfterMiss(c) =>
                   /\ k \in DOMAIN maps'[t]
                   /\ maps'[t][k][c] = (IF t \in PacketTables THEN 1 ELSE xdp[c].len)
                   /\ xdp'[c].ret # "XDP_ABORTED"
             /\ BytesAfterMiss(c) =>
                   k \in DOMAIN maps'[t] /\ maps'[t][k][c] = xdp[c].len
             /\ (xdp[c].phase # "idle" /\ xdp'[c].phase = "idle" /\ xdp[c].len >= ETH_HLEN)
                   => xdp'[c].ret = "XDP_PASS"]_vars

\* ---------------------------------------------------------------- C21
\* An aggregation pass begins in this step (the first context is ticked).
PassBegins == ni_tick_count' = ni_tick_count + 1
\* The loop body ends in this step and the next iteration is about to start.
IterationEnds == app.pc # "poll" /\ app'.pc = "poll"

\* C21: an iteration of the driver loop handles at most one input event; a
\* pass begins only when a full tick period has elapsed since last_tick, and
\* at the tick test with the period elapsed the loop goes on with a pass;
\* an iteration ends with exactly one pass performed if the period had
\* elapsed and with none otherwise, and a pass has ticked both contexts,
\* whichever is selected, before last_tick is set anew.
C21_OnePassPerElapsedTick ==
    [][/\ app'.handled <= 1 /\ app'.passed <= 1
       /\ app'.events # app.events => app.pc = "poll" /\ app'.handled = 1
       /\ PassBegins => app.elapsed >= TICK_RATE /\ app.pc = "tick" /\ app.passed = 0
       /\ (tick_count' # tick_count \/ (upc # "idle" /\ upc' # upc)) =>
             app.pc = "pass" /\ app.passed = 1
       /\ (app.pc = "tick" /\ app.elapsed >= TICK_RATE /\ app' # app) => PassBegins
       /\ IterationEnds =>
             /\ (app.passed = 1) <=> (app.elapsed >= TICK_RATE)
             /\ app.passed = 1 =>
                   /\ ni_tick_count' = tick_count'
                   /\ app'.elapsed = 0]_vars
\* an iteration has handled an event and then performed the second pass of
\* the run while the Ethernet context was selected
C21_Witness ==
    /\ proc = Running /\ app.pc = "poll" /\ app.elapsed = 0
    /\ app.handled = 1 /\ app.passed = 1
    /\ app.selected_context_id # NetworkInterfaceContextId
    /\ ni_tick_count = 2 /\ tick_count = 2
    /\ ni_cumul_packet_counts[1] > 0

\* ---------------------------------------------------------------- C22
\* The packet delta the pass has recorded for address m: the value of the
\* point it appended to the packet series of m.
RecordedPacketDelta(m) == Last(tick_packet_count_data'[m])[2]
LastActiveKept(m) ==
    IF m \in DOMAIN last_active_tick
    THEN m \in DOMAIN last_active_tick' /\ last_active_tick'[m] = last_active_tick[m]
    ELSE m \notin DOMAIN last_active_tick'

\* C22: a pass sets the last-active tick of an address to the current tick
\* when the packet delta it records for the address in that pass is
\* strictly positive, and otherwise leaves the last-active tick as it was.
C22_LastActiveFollowsPacketDelta ==
    [][(EthPacketPassStep /\ proc' = Running) =>
          \A m \in DOMAIN maps[MAC_PKT] :
             IF RecordedPacketDelta(m) > 0
             THEN m \in DOMAIN last_active_tick' /\ last_active_tick'[m] = tick_count'
             ELSE LastActiveKept(m)]_vars

\* ---------------------------------------------------------------- C23
\* This step is detach(i), called on its own or through toggle, and it
\* returns Ok.
SuccessfulDetach(i) ==
    /\ i \in xdp_link_ids
    /\ \/ DetachCall(i, TRUE)
       \/ collecting[i] /\ toggle_ebpf_program(i, TRUE)

\* C23: a successful detach(i) removes the recorded link id of i and
\* replaces the packet series and the byte series of i by exactly one
\* zero-valued point; no series, collecting flag or link id of any other
\* interface changes.
C23_DetachResetsOnlyItsInterface ==
    [][\A i \in Interfaces :
          SuccessfulDetach(i) =>
             /\ i \notin xdp_link_ids'
             /\ ni_tick_packet_count_data'[i] = << <<0, 0>> >>
             /\ ni_tick_byte_count_data'[i] = << <<0, 0>> >>
             /\ \A j \in Interfaces \ {i} :
                   /\ ni_tick_packet_count_data'[j] = ni_tick_packet_count_data[j]
                   /\ ni_tick_byte_count_data'[j] = ni_tick_byte_count_data[j]
                   /\ collecting'[j] = collecting[j]
                   /\ (j \in xdp_link_ids') = (j \in xdp_link_ids)]_vars
\* the first interface, which had counted traffic and gathered points, has
\* been detached with success; another interface still holds its link id
\* and the points it gathered
C23_Witness ==
    /\ proc = Running
    /\ ret.val = "Ok" /\ ret.id = 1
    /\ 1 \notin xdp_link_ids /\ 1 \notin attached
    /\ ni_cumul_packet_counts[1] > 0
    /\ ni_tick_packet_count_data[1] = << <<0, 0>> >>
    /\ ni_tick_byte_count_data[1] = << <<0, 0>> >>
    /\ \E j \in Interfaces \ {1} :
          j \in xdp_link_ids /\ collecting[j] /\ Len(ni_tick_packet_count_data[j]) > 1

\* ---------------------------------------------------------------- C24
\* How often address m occurs in the list of tracked addresses.
Occurrences(m) == Cardinality({j \in 1..Len(src_macs) : src_macs[j] = m})
OccurrencesAfter(m) == Cardinality({j \in 1..Len(src_macs') : src_macs'[j] = m})
\* The address is tracked: it is in the list and has its stored values.
Tracked(m) == Occurrences(m) > 0 /\ m \in DOMAIN cumul_packet_counts

\* C24: an address enters the tracked set only in the step of a pass that
\* reads the kernel packet table, finds it there and does not hold it yet;
\* its first recorded packet delta is its full current kernel packet count
\* (it starts from cumulative counts 0 and empty series), and it is in the
\* list of tracked addresses exactly once.
C24_RegisteredOnceFromZero ==
    [][\A m \in Macs :
          /\ (OccurrencesAfter(m) > Occurrences(m)) =>
                /\ EthPacketPassStep
                /\ m \in DOMAIN maps[MAC_PKT]
                /\ ~Tracked(m)
                /\ tick_packet_count_data'[m] = << <<tick_count', EthCurPkt(m)>> >>
                /\ tick_byte_count_data'[m] = <<>>
                /\ cumul_byte_counts'[m] = 0
          /\ OccurrencesAfter(m) <= 1]_vars

\* ---------------------------------------------------------------- C25
\* Stages of a tick, recognised from what a step changes.
ReadsAddressCounters ==
    \/ tick_count' # tick_count
    \/ \E m \in DOMAIN tick_byte_count_data' :
          /\ m \in DOMAIN tick_byte_count_data
          /\ Len(tick_byte_count_data'[m]) > 0
          /\ tick_byte_count_data'[m] # tick_byte_count_data[m]
EvictsIdleAddress ==
    \/ \E m \in DOMAIN last_active_tick : m \notin DOMAIN last_active_tick'
    \/ to_remove # <<>> /\ to_remove' = Tail(to_remove)
\* Every interface has its two points of tick t.
InterfaceReadsDone(t) ==
    \A i \in Interfaces :
        /\ Last(ni_tick_packet_count_data[i])[1] = t
        /\ Last(ni_tick_byte_count_data[i])[1] = t
        /\ ni_tick_count = t
\* Every address of a kernel table that is tracked has its point of tick t.
AddressReadsDone(t) ==
    /\ \A m \in (DOMAIN maps[MAC_PKT]) \cap (DOMAIN tick_packet_count_data) :
          Last(tick_packet_count_data[m])[1] = t
    /\ \A m \in (DOMAIN maps[MAC_BYTE]) \cap (DOMAIN tick_byte_count_data) :
          Last(tick_byte_count_data[m])[1] = t
\* No address is selected for eviction or waiting to be evicted.
EvictionsDone == to_remove = <<>> /\ IdleMacs = {}
\* The first three stages: interface reads, then address reads, then
\* evictions.
ReadsThenEvictions ==
    /\ ReadsAddressCounters => InterfaceReadsDone(tick_count')
    /\ EvictsIdleAddress => AddressReadsDone(tick_count) /\ InterfaceReadsDone(tick_count)

\* C25 as stated: in every tick all interface counter reads finish before
\* the first address counter read, all address reads finish before the first
\* idle eviction, and window bounds advance only after the evictions.
C25_StagesInOrder ==
    [][/\ ReadsThenEvictions
       /\ (window' # window \/ ni_window' # ni_window) =>
             /\ ni_tick_count' = tick_count'
             /\ AddressReadsDone(tick_count)'
             /\ EvictionsDone']_vars

\* C25, amended: in every tick all interface counter reads finish before
\* the first address counter read and all address reads finish before the
\* first idle eviction; the window of the interface model advances with the
\* last interface read, before the first address read of the tick, and the
\* window of the address model advances only after the evictions.
C25_StagesInOrderPerModel ==
    [][/\ ReadsThenEvictions
       /\ window' # window =>
             /\ ni_tick_count' = tick_count'
             /\ EvictionsDone'
       /\ ni_window' # ni_window =>
             /\ InterfaceReadsDone(ni_tick_count)'
             /\ tick_count' = ni_tick_count' - 1]_vars
\* a pass has read interfaces and addresses, evicted an idle address and
\* then advanced both windows
C25_Witness ==
    /\ upc = "idle" /\ proc = Running
    /\ \E m \in DOMAIN evicted_at : evicted_at[m] = tick_count
    /\ DOMAIN last_active_tick # {}
    /\ window[1] > 0 /\ ni_window = window


\* ---------------------------------------------------------------- C26
\* The series ends with the point of tick t.
HasPointOf(series, t) == Len(series) > 0 /\ series[Len(series)][1] = t
\* The keys a stopped pass has left without their packet point or without
\* their byte point of the current tick.
InterfacesWithoutPoint ==
    {i \in Interfaces :
        \/ ~HasPointOf(ni_tick_packet_count_data[i], ni_tick_count)
        \/ ~HasPointOf(ni_tick_byte_count_data[i], ni_tick_count)}
AddressesWithoutPoint ==
    {m \in (DOMAIN maps[MAC_PKT]) \cup (DOMAIN maps[MAC_BYTE]) :
        \/ m \notin DOMAIN tick_packet_count_data
        \/ m \notin DOMAIN tick_byte_count_data
        \/ ~HasPointOf(tick_packet_count_data[m], tick_count)
        \/ ~HasPointOf(tick_byte_count_data[m], tick_count)}
\* C26: when reading or updating one key fails during a pass, that key is
\* the only one left without its new point: every other key of the tables
\* has its point of the current tick in both series.
C26_FailureSkipsOnlyItsKey ==
    /\ (proc # Running /\ proc.at = "NetworkInterfaceModel::on_tick")
          => Cardinality(InterfacesWithoutPoint) <= 1
    /\ (proc # Running /\ proc.at = "EthernetModel::on_tick"
          /\ upc \in {"eth_pkt", "eth_byte"})
          => Cardinality(AddressesWithoutPoint) <= 1


\* ---------------------------------------------------------------- C27
\* init_ebpf_programs has returned.
StartupComplete == upc \notin {"boot_attach", "boot_init_packet", "boot_init_byte"}
\* C27: the two interface counter tables never hold an id that is not a known
\* interface, and once startup is complete they hold an entry for every known
\* interface, attached or detached, so that no pass ends because the
\* counter of a known interface is missing.
C27_InterfaceEntriesStay ==
    /\ \A t \in {IF_PKT, IF_BYTE} : DOMAIN maps[t] \subseteq Interfaces
    /\ StartupComplete =>
          /\ \A t \in {IF_PKT, IF_BYTE} : DOMAIN maps[t] = Interfaces
          /\ NiPktMissing = {} /\ NiByteMissing = {}
          /\ proc # Failed("NetworkInterfaceModel::on_tick")
\* a frame has arrived, and a pass has read the counters of an interface
\* that was detached after startup
C27_Witness ==
    /\ StartupComplete /\ proc = Running /\ upc = "idle"
    /\ \E i \in Interfaces :
          /\ i \notin attached /\ ~collecting[i]
          /\ ni_tick_count >= 1
          /\ ni_tick_packet_count_data[i] = <<<<0, 0>>, <<ni_tick_count, 0>>>>
          /\ i \in DOMAIN maps[IF_PKT] /\ i \in DOMAIN maps[IF_BYTE]
    /\ npackets >= 1


\* ---------------------------------------------------------------- C28
\* CPU c performs the store or insert of one block of the program.
UpdatesOn(c) == xdp[c].phase = "upd" /\ xdp'[c].phase # "upd"
\* Every slot of every table that does not belong to CPU c is as before; an
\* entry created in this step holds zero there.
OtherSlotsUntouched(c) ==
    \A t \in Tables : \A k \in DOMAIN maps'[t] : \A x \in Cpus \ {c} :
        maps'[t][k][x] = IF k \in DOMAIN maps[t] THEN maps[t][k][x] ELSE 0
\* Every frame received is in the four counters of its keys.
AllFramesCounted ==
    /\ SumSlots(maps[IF_PKT][1], Cpus) = npackets
    /\ SumSlots(maps[IF_BYTE][1], Cpus) = npackets * ETH_HLEN
    /\ npackets > 0 =>
          /\ SumSlots(maps[MAC_PKT][1], Cpus) = npackets
          /\ SumSlots(maps[MAC_BYTE][1], Cpus) = npackets * ETH_HLEN
\* C28: a store or insert of the program on CPU c changes no slot of another
\* CPU in any table, and once the packets processed at the same time on
\* different CPUs have all been handled no increment is missing.
C28_OwnSlotOnly ==
    [][ /\ \A c \in Cpus : UpdatesOn(c) => OtherSlotsUntouched(c)
        /\ Quiescent' => AllFramesCounted' ]_vars
\* a CPU whose lookup found no entry for the address is about to insert one
\* that another CPU, still processing its own packet, has inserted meanwhile
C28_Witness ==
    \E a, b \in Cpus :
        /\ a # b
        /\ xdp[a].phase = "upd" /\ xdp[a].stage = 3 /\ xdp[a].ptr = "none"
        /\ xdp[b].phase # "idle" /\ xdp[b].stage = 4
        /\ 1 \in DOMAIN maps[MAC_PKT]
        /\ maps[MAC_PKT][1][b] = 1 /\ maps[MAC_PKT][1][a] = 0


\* ---------------------------------------------------------------- C29
\* The pass is between the two `remove` calls of an eviction, or holds
\* addresses still to be removed.
EvictionInProgress == upc \in {"eth_evict_pkt", "eth_evict_byte"}
\* C29: whenever no packet and no eviction is in the middle of its steps, the
\* packet table and the byte table hold the same addresses, and the byte
\* counter of each address covers the packets its packet counter counts (all
\* frames being ETH_HLEN bytes long).
C29_CountersFormOneRecord ==
    (Quiescent /\ ~EvictionInProgress) =>
        /\ DOMAIN maps[MAC_PKT] = DOMAIN maps[MAC_BYTE]
        /\ \A m \in DOMAIN maps[MAC_PKT] :
              SumSlots(maps[MAC_BYTE][m], Cpus) = ETH_HLEN * SumSlots(maps[MAC_PKT][m], Cpus)


\* ---------------------------------------------------------------- C30
\* C30: when the pass is about to iterate the byte table, every address in
\* that table has a byte series and a cumulative byte count, and the pass
\* never stops in the byte loop at an address that has none.
C30_ByteKeysAreTracked ==
    upc = "eth_byte" =>
        /\ ~EthByteUntracked
        /\ proc # Panicked("EthernetModel::on_tick")


\* ---------------------------------------------------------------- C31
\* C31: the zero-initialisation of an interface's counters loses no packet
\* the program has counted: the slots of an interface's packet counter add
\* up to the packets counted on it, and those of its byte counter to their
\* bytes, also when a packet is processed between the absence check and the
\* insert of the zeros.
C31_ZeroInitKeepsCounts ==
    \A i \in DOMAIN maps[IF_PKT] :
        /\ SumSlots(maps[IF_PKT][i], Cpus) = counted[IF_PKT][i].n
        /\ i \in DOMAIN maps[IF_BYTE] =>
              SumSlots(maps[IF_BYTE][i], Cpus) = counted[IF_PKT][i].bytes


\* ---------------------------------------------------------------- C32
\* C32: after any sequence of toggles, those that failed included, the
\* collecting flag of every known interface is true exactly when a link
\* handle is recorded for it, and the program is installed on it exactly
\* then.
C32_FlagMatchesLinkHandle ==
    \A i \in Interfaces :
        /\ collecting[i] <=> i \in xdp_link_ids
        /\ i \in xdp_link_ids <=> i \in attached


\* ---------------------------------------------------------------- C33
\* The ticks a series holds points of.
TicksOf(series) == {series[n][1] : n \in 1..Len(series)}
\* C33: between two passes the packet series and the byte series of every
\* interface, and of every tracked address, hold points of the same ticks.
C33_SeriesCoverSameTicks ==
    (proc = Running /\ upc = "idle") =>
        /\ \A i \in Interfaces :
              TicksOf(ni_tick_packet_count_data[i]) = TicksOf(ni_tick_byte_count_data[i])
        /\ \A m \in DOMAIN tick_packet_count_data :
              /\ m \in DOMAIN tick_byte_count_data
              /\ TicksOf(tick_packet_count_data[m]) = TicksOf(tick_byte_count_data[m])


\* ---------------------------------------------------------------- C34
\* The addresses in the list.
ListedMacs == {src_macs[n] : n \in 1..Len(src_macs)}
\* C34: between two passes the address list, the last-active map, the two
\* cumulative-count maps and the two series maps hold the same addresses, and
\* no address is in the list twice.
C34_LocalMapsAgree ==
    (proc = Running /\ upc = "idle") =>
        /\ ListedMacs = DOMAIN last_active_tick
        /\ DOMAIN cumul_packet_counts = DOMAIN last_active_tick
        /\ DOMAIN cumul_byte_counts = DOMAIN last_active_tick
        /\ DOMAIN tick_packet_count_data = DOMAIN last_active_tick
        /\ DOMAIN tick_byte_count_data = DOMAIN last_active_tick
        /\ Cardinality(ListedMacs) = Len(src_macs)


\* ---------------------------------------------------------------- C35
\* The loop is running, at its poll or at its tick test, and the tick period
\* has elapsed since last_tick.
PassIsDue ==
    /\ proc = Running /\ app.run_state = "Running"
    /\ app.pc \in {"poll", "tick"}
    /\ TickDue
\* C35: while the loop runs, a pass that is due is eventually performed, also
\* when a key event is waiting in every iteration - unless the event handled
\* on the way is 'q' or ends the process (the passes being counted up to
\* MaxTickLive).
C35_DuePassIsPerformed ==
    PassIsDue ~> \/ app.pc = "pass"
                 \/ app.run_state # "Running" \/ proc # Running
                 \/ ni_tick_count = MaxTickLive
\* a pass begins in an iteration that handled an event, after key events in
\* MaxEvents iterations or more
C35_Witness ==
    /\ app.pc = "pass" /\ app.handled = 1 /\ app.passed = 1
    /\ app.events = MaxEvents
    /\ proc = Running


\* ---------------------------------------------------------------- C36
\* A pass completes in this step: the second context has been ticked.
PassCompleted == upc # "idle" /\ upc' = "idle" /\ proc' = Running
InWindow(w, tick) == w[1] <= tick /\ tick <= w[2]
\* Every point of every series of an interface is inside the interface
\* window, and every point of every series of an address inside the address
\* window.
PointsInWindow ==
    /\ \A i \in Interfaces :
          /\ \A n \in 1..Len(ni_tick_packet_count_data[i]) :
                InWindow(ni_window, ni_tick_packet_count_data[i][n][1])
          /\ \A n \in 1..Len(ni_tick_byte_count_data[i]) :
                InWindow(ni_window, ni_tick_byte_count_data[i][n][1])
    /\ \A m \in DOMAIN tick_packet_count_data :
          \A n \in 1..Len(tick_packet_count_data[m]) :
             InWindow(window, tick_packet_count_data[m][n][1])
    /\ \A m \in DOMAIN tick_byte_count_data :
          \A n \in 1..Len(tick_byte_count_data[m]) :
             InWindow(window, tick_byte_count_data[m][n][1])
\* C36 as stated: after every completed pass every stored point is inside
\* the current window.
C36_PointsInsideWindow == [][PassCompleted => PointsInWindow']_vars

\* The points of series s from position n on are those of the passes up to
\* the current one (tick t), one per pass.
UnbrokenFrom(s, n, t) == \A k \in n..Len(s) : s[k][1] = t - (Len(s) - k)
\* No point of series s is later than the window w, and the points pushed in
\* the latest passes without a gap are inside it.
RecentPointsInWindow(s, w, t) ==
    \A n \in 1..Len(s) :
        /\ s[n][1] <= w[2]
        /\ UnbrokenFrom(s, n, t) => InWindow(w, s[n][1])
\* C36, amended: after every completed pass no stored point is later than
\* the window, every interface series ends with the point of the current
\* tick, and every point that belongs to the unbroken run of points of the
\* latest passes is inside the window; an older point (the zero point a
\* detach has left, a point from before a pass that did not find the
\* address in the kernel table) may lie before the window.
C36_RecentPointsInsideWindow ==
    [][PassCompleted =>
          /\ \A i \in Interfaces :
                /\ RecentPointsInWindow(ni_tick_packet_count_data[i], ni_window, ni_tick_count)'
                /\ RecentPointsInWindow(ni_tick_byte_count_data[i], ni_window, ni_tick_count)'
                /\ HasPointOf(ni_tick_packet_count_data[i], ni_tick_count)'
                /\ HasPointOf(ni_tick_byte_count_data[i], ni_tick_count)'
          /\ \A m \in DOMAIN tick_packet_count_data' :
                RecentPointsInWindow(tick_packet_count_data[m], window, tick_count)'
          /\ \A m \in DOMAIN tick_byte_count_data' :
                RecentPointsInWindow(tick_byte_count_data[m], window, tick_count)']_vars
\* a pass has completed after a detach reset the series of an interface:
\* the zero point of the reset lies before the window
C36_Witness ==
    /\ proc = Running /\ upc = "idle"
    /\ \E i \in Interfaces :
          /\ ~collecting[i]
          /\ ni_tick_packet_count_data[i] = <<<<0, 0>>, <<ni_tick_count, 0>>>>
          /\ ni_tick_byte_count_data[i] = <<<<0, 0>>, <<ni_tick_count, 0>>>>
          /\ ni_window[1] > 0


\* ------------------------------------------------------------------ C37
\* C37: whenever the tracked address list is non-empty, the selected list
\* index designates an existing entry: between two handlers, after any
\* sequence of select-next, select-previous, passes and idle evictions, the
\* index the key handlers use (`selected().unwrap_or(0)`) is below the length
\* of the list.
SelectionDesignatesEntry == Selected(src_macs_state) < Len(src_macs)
C37_SelectionIsTracked ==
    (proc = Running /\ upc = "idle" /\ src_macs # <<>>) => SelectionDesignatesEntry

====
